---- MODULE Spec2Model ----
(***************************************************************************)
(* Loopback recorder: the SPSC byte ring (src/src/SpscByteRing.h) and the  *)
(* capture-to-disk pipeline of LoopbackRecorder::Record                    *)
(* (src/src/LoopbackRecorder.cpp).                                         *)
(***************************************************************************)
EXTENDS Integers, Sequences, FiniteSets, TLC

(***************************************************************************)
(* Bounds of the model.                                                    *)
(***************************************************************************)
MaxCapacity == 3      \* largest capacityBytes handed to the ring's constructor
MaxReq == 4           \* longest Write request / largest Read maxBytes
MaxTotal == 6         \* Write calls stop once writePos would pass this

Byte == 0..1

Min(a, b) == IF a <= b THEN a ELSE b
Max(a, b) == IF a >= b THEN a ELSE b

DataSeqs == UNION {[1..n -> Byte] : n \in 0..MaxReq}

VARIABLES
    capacity,   \* SpscByteRingBuffer::capacity_
    buffer,     \* SpscByteRingBuffer::buffer_, indexed 0..capacity-1
    writePos,   \* SpscByteRingBuffer::writePos_
    readPos,    \* SpscByteRingBuffer::readPos_
    wpc,        \* where the producer is inside Write
    wData,      \* Write: the data argument
    wBytes,     \* Write: local bytes after the clamp of line 41
    wPos,       \* Write: local writePos of line 42
    wRet,       \* Write: the value last returned
    rpc,        \* where the consumer is inside Read
    rBytes,     \* Read: local bytes of line 62
    rPos,       \* Read: local readPos of line 63
    rDest,      \* Read: what has been copied to dest so far
    rRet,       \* Read: the value last returned
    written,    \* history: every byte a Write accepted, in order
    readOut     \* history: every byte a Read returned, in order

\* One session of LoopbackRecorder::Record
VARIABLES
    cfg,        \* RecorderConfig / RecorderControls: what the caller supplied
    env,        \* the caller's flags behind the controls, what the surroundings may do
    ev,         \* the Win32 events: dataReady, spaceAvailable, userStop
    shared,     \* the atomics of lines 237-243
    cap,        \* the capture loop: position and locals
    stats,      \* RecorderStats stats, as the capture thread fills it
    enc,        \* the writerThread lambda: position and locals
    watchPc,    \* the stopWatcher thread: "none", "run" or "done"
    segments,   \* the segment files: state of the writer and bytes handed to it
    result,     \* how Record ended and the statistics it returned
    pktLog,     \* history: the packets GetBuffer delivered
    pushOk      \* history: no pushToRing has fallen short so far

ringVars == <<capacity, buffer, writePos, readPos>>
writeVars == <<wpc, wData, wBytes, wPos, wRet>>
readVars == <<rpc, rBytes, rPos, rDest, rRet>>
histVars == <<written, readOut>>
sessVars == <<cfg, env, ev, shared, cap, stats, enc, watchPc, segments, result, pktLog, pushOk>>
vars == <<ringVars, writeVars, readVars, histVars, sessVars>>

(***************************************************************************)
(* SpscByteRingBuffer                                                      *)
(***************************************************************************)
\* The constructor: buffer_(capacityBytes ? capacityBytes : 1), capacity_(buffer_.size())
CtorCapacity(capacityBytes) == IF capacityBytes # 0 THEN capacityBytes ELSE 1

Capacity == capacity

AvailableToWriteOffByOne == capacity - (writePos - readPos) + 1

AvailableToWrite == capacity - (writePos - readPos)

AvailableToReadPlusOne == (writePos - readPos) + 1

AvailableToRead == writePos - readPos

\* bytes = std::min(bytes, writable) / std::min(maxBytes, readable)
ClampUnclamped(bytes, avail) == bytes

Clamp(bytes, avail) == Min(bytes, avail)

\* offset = pos % capacity_
Offset(pos) == pos % capacity

FirstPartNoWrap(bytes, offset) == bytes

\* firstPart = std::min(bytes, capacity_ - offset)
FirstPart(bytes, offset) == Min(bytes, capacity - offset)

\* std::memcpy(buffer_.data() + offset, src, Len(src))
CopyIn(buf, offset, src) ==
    [i \in 0..(capacity - 1) |->
        IF i >= offset /\ i < offset + Len(src) THEN src[i - offset + 1] ELSE buf[i]]

\* the slots a copy of n bytes starting at cursor pos touches
Slots(pos, n) == {(pos + i) % capacity : i \in 0..(n - 1)}

\* the slots the producer is copying into
ProducerSlots == IF wpc \in {"copy1", "copy2", "publish"} THEN Slots(wPos, wBytes) ELSE {}

\* the slots the consumer is copying out of
ConsumerSlots == IF rpc \in {"copy1", "copy2", "publish"} THEN Slots(rPos, rBytes) ELSE {}

\* the slots holding published bytes the consumer has not released
UnreadSlots == Slots(readPos, writePos - readPos)

\* what a memcpy out of the slots offset..offset+n-1 can deliver: the slot's
\* byte, or any byte for a slot the producer is writing at the same time
\* (a data race)
CopyOutResults(buf, offset, n) ==
    {d \in [1..n -> Byte] :
        \A i \in 1..n : (offset + i - 1) \in ProducerSlots \/ d[i] = buf[offset + i - 1]}

\* Write, lines 33-44: the early returns, the clamp and the cursor load
WriteCall(data) ==
    /\ wpc = "idle"
    /\ writePos + Len(data) <= MaxTotal
    /\ IF Len(data) = 0 \/ AvailableToWrite = 0
       THEN /\ wRet' = 0
            /\ UNCHANGED <<wpc, wData, wBytes, wPos>>
       ELSE /\ wBytes' = Clamp(Len(data), AvailableToWrite)
            /\ wPos' = writePos
            /\ wData' = data
            /\ wpc' = "copy1"
            /\ UNCHANGED wRet
    /\ UNCHANGED <<ringVars, readVars, histVars, sessVars>>

\* Write, lines 43-45: the first memcpy
WriteCopyFirst ==
    /\ wpc = "copy1"
    /\ LET offset == Offset(wPos)
           firstPart == FirstPart(wBytes, offset)
       IN /\ buffer' = CopyIn(buffer, offset, SubSeq(wData, 1, firstPart))
          /\ wpc' = IF wBytes - firstPart > 0 THEN "copy2" ELSE "publish"
    /\ UNCHANGED <<capacity, writePos, readPos, wData, wBytes, wPos, wRet, readVars, histVars, sessVars>>

\* Write, lines 46-49: the second memcpy, after the wrap
WriteCopySecond ==
    /\ wpc = "copy2"
    /\ LET firstPart == FirstPart(wBytes, Offset(wPos))
       IN buffer' = CopyIn(buffer, 0, SubSeq(wData, firstPart + 1, wBytes))
    /\ wpc' = "publish"
    /\ UNCHANGED <<capacity, writePos, readPos, wData, wBytes, wPos, wRet, readVars, histVars, sessVars>>

\* Write, lines 50-51: the release store of writePos_ and the return
WritePublish ==
    /\ wpc = "publish"
    /\ writePos' = wPos + wBytes
    /\ wRet' = wBytes
    /\ written' = written \o SubSeq(wData, 1, wBytes)
    /\ wpc' = "idle"
    /\ wData' = <<>>
    /\ wBytes' = 0
    /\ wPos' = 0
    /\ UNCHANGED <<capacity, buffer, readPos, readVars, readOut, sessVars>>

\* Read, lines 54-65
ReadCall(maxBytes) ==
    /\ rpc = "idle"
    /\ IF maxBytes = 0 \/ AvailableToRead = 0
       THEN /\ rRet' = 0
            /\ UNCHANGED <<rpc, rBytes, rPos, rDest>>
       ELSE /\ rBytes' = Clamp(maxBytes, AvailableToRead)
            /\ rPos' = readPos
            /\ rDest' = <<>>
            /\ rpc' = "copy1"
            /\ UNCHANGED rRet
    /\ UNCHANGED <<ringVars, writeVars, histVars, sessVars>>

\* Read, lines 64-66: the first memcpy
ReadCopyFirst ==
    /\ rpc = "copy1"
    /\ LET offset == Offset(rPos)
           firstPart == FirstPart(rBytes, offset)
       IN /\ \E d \in CopyOutResults(buffer, offset, firstPart) : rDest' = d
          /\ rpc' = IF rBytes - firstPart > 0 THEN "copy2" ELSE "publish"
    /\ UNCHANGED <<ringVars, writeVars, rBytes, rPos, rRet, histVars, sessVars>>

\* Read, lines 67-70: the second memcpy, after the wrap
ReadCopySecond ==
    /\ rpc = "copy2"
    /\ LET firstPart == FirstPart(rBytes, Offset(rPos))
       IN \E d \in CopyOutResults(buffer, 0, rBytes - firstPart) : rDest' = rDest \o d
    /\ rpc' = "publish"
    /\ UNCHANGED <<ringVars, writeVars, rBytes, rPos, rRet, histVars, sessVars>>

\* Read, lines 71-72: the release store of readPos_ and the return
ReadPublish ==
    /\ rpc = "publish"
    /\ readPos' = rPos + rBytes
    /\ rRet' = rBytes
    /\ readOut' = readOut \o rDest
    /\ rpc' = "idle"
    /\ rBytes' = 0
    /\ rPos' = 0
    /\ rDest' = <<>>
    /\ UNCHANGED <<capacity, buffer, writePos, writeVars, written, sessVars>>

WriteStep == WriteCopyFirst \/ WriteCopySecond \/ WritePublish
ReadStep == ReadCopyFirst \/ ReadCopySecond \/ ReadPublish

RingInit ==
    /\ capacity \in {CtorCapacity(c) : c \in 0..MaxCapacity}
    /\ buffer = [i \in 0..(capacity - 1) |-> 0]
    /\ writePos = 0
    /\ readPos = 0
    /\ wpc = "idle" /\ wData = <<>> /\ wBytes = 0 /\ wPos = 0 /\ wRet = 0
    /\ rpc = "idle" /\ rBytes = 0 /\ rPos = 0 /\ rDest = <<>> /\ rRet = 0
    /\ written = <<>>
    /\ readOut = <<>>
    /\ cfg = <<>> /\ env = <<>> /\ ev = <<>> /\ shared = <<>> /\ cap = <<>>
    /\ stats = <<>> /\ enc = <<>> /\ watchPc = "none" /\ segments = <<>>
    /\ result = <<>> /\ pktLog = <<>> /\ pushOk = TRUE

RingNext ==
    \/ \E data \in DataSeqs : WriteCall(data)
    \/ WriteCopyFirst
    \/ WriteCopySecond
    \/ WritePublish
    \/ \E maxBytes \in 0..MaxReq : ReadCall(maxBytes)
    \/ ReadCopyFirst
    \/ ReadCopySecond
    \/ ReadPublish

\* one producer thread calling Write, one consumer thread calling Read
SpecRing == RingInit /\ [][RingNext]_vars

IsPrefix(s, t) == Len(s) <= Len(t) /\ SubSeq(t, 1, Len(s)) = s

(***************************************************************************)
(* LoopbackRecorder::Record: one session.  The ring calls are taken whole  *)
(* here; SpecRing above takes them step by step.                           *)
(***************************************************************************)
BytesPerFrame == 2     \* mixFormat->nBlockAlign
SampleRate == 2        \* mixFormat->nSamplesPerSec, frames per second
RingBufferMs == 1000   \* config.ringBufferSize
ChunkFrames == 1       \* scaled: the 512 frames of line 267
ChunkFloor == 3        \* scaled: the 16384 bytes of line 267
MaxDurationSec == 2    \* config.maxDuration when given
SegmentSec == 1        \* config.segmentDuration when given
SegmentBytes == 6      \* config.segmentBytes when given
MaxPackets == 2        \* packets the engine delivers in a session
MaxFrames == 2         \* frames in one packet
MaxRequests == 1       \* times the caller asks for a new segment
MaxTimeouts == 1       \* the two idle-timeout counters stop counting here

RingMsMin == 200
RingMsMax == 10000

\* std::nullopt
None == 0 - 1

AUDCLNT_E_DEVICE_INVALIDATED == "AUDCLNT_E_DEVICE_INVALIDATED"
E_FAIL == "E_FAIL"

\* std::clamp
ClampTo(v, lo, hi) == IF v < lo THEN lo ELSE IF v > hi THEN hi ELSE v

\* lines 229-232
ringCapacityBytes ==
    LET ringMs == ClampTo(RingBufferMs, RingMsMin, RingMsMax)
        ringFrames == Max((SampleRate * ringMs) \div 1000, 1)
    IN Max(ringFrames * BytesPerFrame, BytesPerFrame * 2)

\* line 267
chunkBytes == Min(ringCapacityBytes, Max(BytesPerFrame * ChunkFrames, ChunkFloor))

\* line 271
flushThreshold == BytesPerFrame * SampleRate

\* lines 219-221
frameLimit == IF cfg.maxDuration = None THEN None ELSE SampleRate * cfg.maxDuration

\* lines 222-224
segmentFrameTarget ==
    IF cfg.segmentDuration = None THEN None ELSE SampleRate * cfg.segmentDuration

\* line 225
segmentByteTarget == cfg.segmentBytes

\* line 200
hasStopCallback == cfg.shouldStop

\* line 226
manualSegmentsEnabled == cfg.requestNewSegment

\* line 227
segmentationEnabled ==
    segmentFrameTarget # None \/ segmentByteTarget # None \/ manualSegmentsEnabled

\* a RecorderConfig and RecorderControls: a stop callback, nothing else set
Plain ==
    [ shouldStop |-> TRUE, isPaused |-> FALSE, requestNewSegment |-> FALSE,
      failOnGlitch |-> FALSE, maxDuration |-> None, segmentDuration |-> None,
      segmentBytes |-> None ]

\* what the surroundings of a session may do: the engine delivers up to
\* packets packets, each of a number of frames in frames, it may flag them
\* (silent, discontinuity), its calls may fail, the segment writer's calls
\* may throw, the disk may stall
Steady ==
    [ packets |-> MaxPackets, frames |-> 1..MaxFrames, flags |-> FALSE,
      engineFails |-> FALSE, writerFails |-> FALSE, stalls |-> FALSE ]

\* the same with packets of one frame
Short == [Steady EXCEPT !.frames = {1}]

\* the same with one more packet, all of them as long as the ring
Flood == [Steady EXCEPT !.packets = MaxPackets + 1, !.frames = {MaxFrames}]

\* the sessions followed here: a configuration and its surroundings
Sessions ==
    { <<Plain, Steady>>,
      <<[Plain EXCEPT !.isPaused = TRUE], Steady>>,
      <<[Plain EXCEPT !.requestNewSegment = TRUE], Short>>,
      <<[Plain EXCEPT !.segmentDuration = SegmentSec], Steady>>,
      <<[Plain EXCEPT !.segmentBytes = SegmentBytes], Steady>>,
      <<[Plain EXCEPT !.shouldStop = FALSE, !.maxDuration = MaxDurationSec], Steady>>,
      <<Plain, [Short EXCEPT !.flags = TRUE]>>,
      <<[Plain EXCEPT !.failOnGlitch = TRUE], [Short EXCEPT !.flags = TRUE]>>,
      <<Plain, [Short EXCEPT !.engineFails = TRUE]>>,
      <<Plain, [Steady EXCEPT !.writerFails = TRUE]>>,
      <<Plain, [Steady EXCEPT !.stalls = TRUE]>>,
      <<Plain, Flood>> }

\* SetEvent / the reset of an auto-reset event by a satisfied wait
SetEvent(e, name) == [e EXCEPT ![name] = TRUE]
ResetEvent(e, name) == [e EXCEPT ![name] = FALSE]

\* a counter this model only follows up to MaxTimeouts
Bump(n) == IF n < MaxTimeouts THEN n + 1 ELSE n

\* ---- the ring calls, taken whole ----

\* SpscByteRingBuffer::Write: the count it returns for a request of n bytes
WriteCount(n) == IF n = 0 \/ AvailableToWrite = 0 THEN 0 ELSE Clamp(n, AvailableToWrite)

\* SpscByteRingBuffer::Write: buffer_ after src (already clamped) was copied in
BufferAfterWrite(src) ==
    LET offset == Offset(writePos)
        firstPart == FirstPart(Len(src), offset)
    IN CopyIn(CopyIn(buffer, offset, SubSeq(src, 1, firstPart)),
              0, SubSeq(src, firstPart + 1, Len(src)))

\* SpscByteRingBuffer::Read: the count it returns for maxBytes
ReadCount(maxBytes) ==
    IF maxBytes = 0 \/ AvailableToRead = 0 THEN 0 ELSE Clamp(maxBytes, AvailableToRead)

\* SpscByteRingBuffer::Read: what the two copies put into dest
ReadData(n) ==
    LET offset == Offset(readPos)
        firstPart == FirstPart(n, offset)
    IN [i \in 1..n |-> IF i <= firstPart THEN buffer[offset + i - 1]
                                         ELSE buffer[i - firstPart - 1]]

\* ---- the engine and the caller ----

\* the bytes of packet number pkt: frames frames of BytesPerFrame bytes; the
\* staging copy of a packet flagged silent is all zero (line 596)
PacketBytes(pkt, frames, silent) ==
    [i \in 1..(frames * BytesPerFrame) |->
        [pkt |-> pkt, idx |-> i, val |-> IF silent THEN 0 ELSE 1]]

\* the caller's stop flag goes up (main.cpp: stopRequested = true)
UserStop ==
    /\ cfg.shouldStop
    /\ ~env.stopRequested
    /\ result.kind = "running"
    /\ env' = [env EXCEPT !.stopRequested = TRUE]
    /\ UNCHANGED <<ringVars, writeVars, readVars, histVars, cfg, ev, shared, cap, stats, enc,
                   watchPc, segments, result, pktLog, pushOk>>

\* the encode thread is inside its loop (lines 361-400), neither failed nor
\* stalled
EncodeLoopRunning ==
    /\ enc.pc \in {"loop", "read", "datawait", "write", "flush", "rollclose", "rollopen"}
    /\ ~shared.writerFailed

\* the caller asks for a new segment (main.cpp: segmentRequested.store(true));
\* history: requests counts the stores, owed tells that a store made while
\* the encode loop was running has not been consumed
RequestSegment ==
    /\ cfg.requestNewSegment
    /\ result.kind = "running"
    /\ env.requests < MaxRequests
    /\ env' = [env EXCEPT !.segmentRequested = TRUE, !.requests = @ + 1,
                          !.owed = @ \/ EncodeLoopRunning]
    /\ UNCHANGED <<ringVars, writeVars, readVars, histVars, cfg, ev, shared, cap, stats, enc,
                   watchPc, segments, result, pktLog, pushOk>>

\* ---- the capture loop (the thread that called Record) ----

\* an error handler that takes every failure for a lost device
handleAudioErrorAny(st, error) == [st EXCEPT !.deviceInvalidated = TRUE]

\* handleAudioError, lines 472-481; cap.engineError keeps, as history, the
\* failure code an engine call returned
handleAudioError(st, error) ==
    IF error = AUDCLNT_E_DEVICE_INVALIDATED THEN [st EXCEPT !.deviceInvalidated = TRUE] ELSE st

\* history: a wait of the capture loop ran its full time; it is counted, up
\* to MaxTimeouts + 1, when the caller's stop flag was up by then
TimedOut(c) ==
    IF env.stopRequested /\ c.timeoutsSinceStop <= MaxTimeouts
    THEN [c EXCEPT !.timeoutsSinceStop = @ + 1] ELSE c

\* lines 518-528: the fatal flag and the stop predicate, at the top of the loop
CapTop ==
    /\ cap.pc = "top"
    /\ IF shared.fatalError
       THEN /\ cap' = [cap EXCEPT !.pc = "shutdown"]
            /\ UNCHANGED ev
       ELSE IF cfg.shouldStop /\ env.stopRequested
       THEN /\ cap' = [cap EXCEPT !.pc = "shutdown"]
            /\ ev' = SetEvent(ev, "userStop")
       ELSE /\ cap' = [cap EXCEPT !.pc = "wait"]
            /\ UNCHANGED ev
    /\ UNCHANGED <<ringVars, writeVars, readVars, histVars, cfg, env, shared, stats, enc,
                   watchPc, segments, result, pktLog, pushOk>>

\* lines 529-551: the bounded wait for samplesReadyEvent (and userStopEvent);
\* samplesReady tells whether the engine signalled its event in time
CapWait ==
    /\ cap.pc = "wait"
    /\ \E samplesReady \in BOOLEAN :
          IF samplesReady
          THEN /\ cap' = [cap EXCEPT !.pc = "size"]
               /\ UNCHANGED stats
          ELSE IF hasStopCallback /\ ev.userStop
          THEN /\ cap' = [cap EXCEPT !.pc = "shutdown"]
               /\ UNCHANGED stats
          ELSE /\ stats' = [stats EXCEPT !.watchdogTimeouts = Bump(@)]
               /\ cap' = [TimedOut(cap) EXCEPT
                              !.pc = IF cfg.failOnGlitch THEN "shutdown" ELSE "top"]
    /\ UNCHANGED <<ringVars, writeVars, readVars, histVars, cfg, env, ev, shared, enc,
                   watchPc, segments, result, pktLog, pushOk>>

\* lines 553-558, 586-591 and 621-626: GetNextPacketSize, then the test of
\* the inner loop (line 560) and, when it ends, the test of the outer one
CapGetNextPacketSize ==
    /\ cap.pc = "size"
    /\ \/ \E packetLength \in (IF Len(pktLog) < env.world.packets THEN {0, 1} ELSE {0}) :
             /\ cap' = [cap EXCEPT !.pc = IF packetLength > 0 THEN "packet" ELSE "top"]
             /\ UNCHANGED stats
       \/ \E hr \in {AUDCLNT_E_DEVICE_INVALIDATED, E_FAIL} :
             /\ env.world.engineFails
             /\ stats' = handleAudioError(stats, hr)
             /\ cap' = [cap EXCEPT !.pc = "shutdown", !.engineError = hr]
    /\ UNCHANGED <<ringVars, writeVars, readVars, histVars, cfg, env, ev, shared, enc,
                   watchPc, segments, result, pktLog, pushOk>>

\* the end of a packet without the test of the frame limit
AfterPushNoLimit(c, acceptedBytes) ==
    LET acceptedFrames == acceptedBytes \div BytesPerFrame
    IN [c EXCEPT !.framesRecorded = c.framesRecorded + acceptedFrames,
                 !.staging = <<>>,
                 !.acceptedBytes = 0,
                 !.pc = "size"]

\* lines 613-620: the accepted frames are counted and the duration limit is
\* tested; then GetNextPacketSize (line 621)
AfterPush(c, acceptedBytes) ==
    LET acceptedFrames == acceptedBytes \div BytesPerFrame
        framesRecorded == c.framesRecorded + acceptedFrames
    IN [c EXCEPT !.framesRecorded = framesRecorded,
                 !.staging = <<>>,
                 !.acceptedBytes = 0,
                 !.pc = IF frameLimit # None /\ framesRecorded >= frameLimit
                        THEN "shutdown" ELSE "size"]

\* a flag of a packet: the engine raises one only when the surroundings do
Flag == IF env.world.flags THEN BOOLEAN ELSE {FALSE}

\* a pause query that never reports a pause
queryPauseStateNever(isPaused) == FALSE

\* queryPauseState, lines 426-436; isPaused is what the callback answers
queryPauseState(isPaused) == IF ~cfg.isPaused THEN FALSE ELSE isPaused

\* lines 560-605: GetBuffer, the discontinuity flag, the pause query, the
\* staging copy and ReleaseBuffer
CapPacket ==
    /\ cap.pc = "packet"
    /\ \/ \E hr \in {AUDCLNT_E_DEVICE_INVALIDATED, E_FAIL} :
             /\ env.world.engineFails
             /\ stats' = handleAudioError(stats, hr)
             /\ cap' = [cap EXCEPT !.pc = "shutdown", !.engineError = hr]
             /\ UNCHANGED pktLog
       \/ \E frames \in env.world.frames, silent \in Flag, discontinuity \in Flag,
             isPaused \in BOOLEAN :
             LET glitched == IF discontinuity
                             THEN [stats EXCEPT !.glitchCount = @ + 1] ELSE stats
                 pausedNow == queryPauseState(isPaused)
                 abort == discontinuity /\ cfg.failOnGlitch
                 pkt == Len(pktLog) + 1
             IN /\ pktLog' = Append(pktLog, [frames |-> frames,
                                             paused |-> ~abort /\ cfg.isPaused /\ isPaused,
                                             glitch |-> discontinuity])
                /\ IF abort
                   THEN /\ stats' = glitched
                        /\ cap' = [cap EXCEPT !.pc = "shutdown"]
                   ELSE IF pausedNow
                   THEN /\ stats' = [glitched EXCEPT !.framesWhilePaused = @ + frames]
                        /\ cap' = [cap EXCEPT !.pc = "size"]
                   ELSE /\ stats' = IF silent
                                    THEN [glitched EXCEPT !.silentFrames = @ + frames]
                                    ELSE glitched
                        /\ cap' = [cap EXCEPT !.pc = "push",
                                              !.staging = PacketBytes(pkt, frames, silent),
                                              !.acceptedBytes = 0]
    /\ UNCHANGED <<ringVars, writeVars, readVars, histVars, cfg, env, ev, shared, enc,
                   watchPc, segments, result, pushOk>>

\* pushToRing, lines 485-491 and 512-515: one turn of its loop up to the wait
CapPush ==
    /\ cap.pc = "push"
    /\ LET bytes == Len(cap.staging)
           wrote == WriteCount(bytes - cap.acceptedBytes)
           src == SubSeq(cap.staging, cap.acceptedBytes + 1, cap.acceptedBytes + wrote)
           acceptedBytes == cap.acceptedBytes + wrote
       IN IF wrote = 0
          THEN /\ stats' = [stats EXCEPT !.ringBufferWaits = @ + 1]
               /\ cap' = [cap EXCEPT !.pc = IF shared.fatalError THEN "shutdown" ELSE "pushwait"]
               /\ pushOk' = (pushOk /\ ~shared.fatalError)
               /\ UNCHANGED <<buffer, writePos, written, ev>>
          ELSE /\ buffer' = BufferAfterWrite(src)
               /\ writePos' = writePos + wrote
               /\ written' = written \o src
               /\ ev' = SetEvent(ev, "dataReady")
               /\ cap' = IF acceptedBytes < bytes
                         THEN [cap EXCEPT !.acceptedBytes = acceptedBytes]
                         ELSE AfterPush(cap, acceptedBytes)
               /\ UNCHANGED <<stats, pushOk>>
    /\ UNCHANGED <<capacity, readPos, writeVars, readVars, readOut, cfg, env, shared, enc,
                   watchPc, segments, result, pktLog>>

\* a pushToRing that goes on after a timeout whatever failOnGlitch says
CapPushWaitNoAbort ==
    /\ cap.pc = "pushwait"
    /\ \/ /\ ev.spaceAvailable
          /\ ev' = ResetEvent(ev, "spaceAvailable")
          /\ cap' = [cap EXCEPT !.pc = "push"]
          /\ UNCHANGED <<stats, pushOk>>
       \/ /\ ~ev.spaceAvailable
          /\ LET remaining == Len(cap.staging) - cap.acceptedBytes
                 droppedFrames == remaining \div BytesPerFrame
             IN /\ stats' = [stats EXCEPT !.ringBufferTimeouts = @ + 1,
                                          !.framesDropped = @ + droppedFrames]
                /\ cap' = AfterPush(TimedOut(cap), cap.acceptedBytes)
          /\ pushOk' = FALSE
          /\ UNCHANGED ev
    /\ UNCHANGED <<ringVars, writeVars, readVars, histVars, cfg, env, shared, enc,
                   watchPc, segments, result, pktLog>>

\* pushToRing, lines 492-511: the bounded wait for spaceAvailableEvent and
\* the drop when it times out
CapPushWait ==
    /\ cap.pc = "pushwait"
    /\ \/ /\ ev.spaceAvailable
          /\ ev' = ResetEvent(ev, "spaceAvailable")
          /\ cap' = [cap EXCEPT !.pc = "push"]
          /\ UNCHANGED <<stats, pushOk>>
       \/ /\ ~ev.spaceAvailable
          /\ LET remaining == Len(cap.staging) - cap.acceptedBytes
                 droppedFrames == remaining \div BytesPerFrame
             IN /\ stats' = [stats EXCEPT !.ringBufferTimeouts = @ + 1,
                                          !.framesDropped = @ + droppedFrames]
                /\ cap' = IF cfg.failOnGlitch
                          THEN [TimedOut(cap) EXCEPT !.pc = "shutdown"]
                          ELSE AfterPush(TimedOut(cap), cap.acceptedBytes)
          /\ pushOk' = FALSE
          /\ UNCHANGED ev
    /\ UNCHANGED <<ringVars, writeVars, readVars, histVars, cfg, env, shared, enc,
                   watchPc, segments, result, pktLog>>

\* lines 631-637: the consumer is told to drain, the stop watcher to end
CapShutdown ==
    /\ cap.pc = "shutdown"
    /\ shared' = [shared EXCEPT !.writerActive = FALSE,
                                !.stopWatcherTerminate = IF hasStopCallback THEN TRUE ELSE @]
    /\ ev' = IF hasStopCallback
             THEN SetEvent(SetEvent(ev, "dataReady"), "userStop")
             ELSE SetEvent(ev, "dataReady")
    /\ cap' = [cap EXCEPT !.pc = IF hasStopCallback THEN "joinwatcher" ELSE "finalize",
                          !.staging = <<>>, !.acceptedBytes = 0]
    /\ UNCHANGED <<ringVars, writeVars, readVars, histVars, cfg, env, stats, enc,
                   watchPc, segments, result, pktLog, pushOk>>

\* lines 638-640: stopWatcher.join()
CapJoinWatcher ==
    /\ cap.pc = "joinwatcher"
    /\ watchPc = "done"
    /\ cap' = [cap EXCEPT !.pc = "finalize"]
    /\ UNCHANGED <<ringVars, writeVars, readVars, histVars, cfg, env, ev, shared, stats, enc,
                   watchPc, segments, result, pktLog, pushOk>>

\* lines 642-659: audioClient->Stop(), framesCaptured, and the load of
\* segmentsOpened into segmentsWritten
CapFinalize ==
    /\ cap.pc = "finalize"
    /\ stats' = [stats EXCEPT !.framesCaptured = cap.framesRecorded,
                              !.segmentsWritten = shared.segmentsOpened]
    /\ cap' = [cap EXCEPT !.pc = "return"]
    /\ UNCHANGED <<ringVars, writeVars, readVars, histVars, cfg, env, ev, shared, enc,
                   watchPc, segments, result, pktLog, pushOk>>

\* lines 660-664: the loads of writerWaitTimeouts and writerFailed; the
\* result is the throw of line 662 or the copy of stats of line 664
CapReturn ==
    /\ cap.pc = "return"
    /\ LET final == [stats EXCEPT !.writerWaitTimeouts = shared.writerWaitTimeouts]
       IN /\ stats' = final
          /\ cap' = [cap EXCEPT !.pc = "guard",
                                !.outcome = IF shared.writerFailed THEN "thrown" ELSE "returned"]
    /\ UNCHANGED <<ringVars, writeVars, readVars, histVars, cfg, env, ev, shared, enc,
                   watchPc, segments, result, pktLog, pushOk>>

\* ThreadGuard::~ThreadGuard, lines 74-78 (writerGuard, line 416), run while
\* Record's locals are destroyed
CapGuard ==
    /\ cap.pc = "guard"
    /\ shared' = [shared EXCEPT !.writerActive = FALSE]
    /\ ev' = SetEvent(ev, "dataReady")
    /\ cap' = [cap EXCEPT !.pc = "join"]
    /\ UNCHANGED <<ringVars, writeVars, readVars, histVars, cfg, env, stats, enc,
                   watchPc, segments, result, pktLog, pushOk>>

\* a guard that lets go of the thread instead of joining it
CapDetachWriter ==
    /\ cap.pc = "join"
    /\ cap' = [cap EXCEPT !.pc = "done"]
    /\ result' = [kind |-> cap.outcome, stats |-> stats]
    /\ UNCHANGED <<ringVars, writeVars, readVars, histVars, cfg, env, ev, shared, stats, enc,
                   watchPc, segments, pktLog, pushOk>>

\* ThreadGuard::~ThreadGuard, lines 79-81: thread_.join(); then Record is over
CapJoinWriter ==
    /\ cap.pc = "join"
    /\ enc.pc = "done"
    /\ cap' = [cap EXCEPT !.pc = "done"]
    /\ result' = [kind |-> cap.outcome, stats |-> stats]
    /\ UNCHANGED <<ringVars, writeVars, readVars, histVars, cfg, env, ev, shared, stats, enc,
                   watchPc, segments, pktLog, pushOk>>

\* ---- the stop watcher thread, lines 244-263 ----

\* lines 246-262: the watcher polls its terminate flag, the fatal flag and
\* the stop predicate
StopWatcher ==
    /\ watchPc = "run"
    /\ IF shared.stopWatcherTerminate
       THEN /\ watchPc' = "done"
            /\ UNCHANGED ev
       ELSE IF shared.fatalError \/ env.stopRequested
       THEN /\ watchPc' = "done"
            /\ ev' = SetEvent(ev, "userStop")
       ELSE UNCHANGED <<watchPc, ev>>
    /\ UNCHANGED <<ringVars, writeVars, readVars, histVars, cfg, env, shared, cap, stats, enc,
                   segments, result, pktLog, pushOk>>

\* ---- the encode loop (writerThread, lines 266-414) ----

\* segmentWriter->Write blocks in file I/O: with a stalled disk the call the
\* encode thread is about to make never comes back
Stall ==
    /\ enc.pc = "write"
    /\ env.world.stalls
    /\ enc' = [enc EXCEPT !.pc = "stalled"]
    /\ UNCHANGED <<ringVars, writeVars, readVars, histVars, cfg, env, ev, shared, cap, stats,
                   watchPc, segments, result, pktLog, pushOk>>

\* a Close that leaves the writer open
CloseNothing(segs) == segs

\* segmentWriter->Close(), and ~WavWriter / ~Mp3StreamWriter -> Close() when
\* the try block is left: segmentWriter owns the writer opened last.
\* WavWriter::Close, WavWriter.cpp 51-60: the header is fixed up only
\* `if (stream_)`, and only by the first call
Close(segs) ==
    IF segs = <<>> THEN segs
    ELSE LET last == segs[Len(segs)]
         IN [segs EXCEPT ![Len(segs)].state = "closed",
                         ![Len(segs)].header =
                             IF last.state = "open" /\ last.stream = "good"
                             THEN "finalized" ELSE @]

\* a segment writer as its constructor leaves it (WavWriter.cpp 13-24): the
\* stream open, the header written with placeholder sizes
NewWriter == [state |-> "open", data |-> <<>>, stream |-> "good", header |-> "placeholder"]

\* a Write or Flush of the current writer failed (WavWriter.cpp 35-37,
\* 46-48): its stream is left in the failed state
StreamFailed(segs) ==
    IF segs = <<>> THEN segs ELSE [segs EXCEPT ![Len(segs)].stream = "failed"]

\* a writer call threw: the unwinding of the try block and the catch block,
\* lines 404-413; segs are the writers as the failed call left them
EncCatch(e, segs) ==
    /\ env.world.writerFails
    /\ segments' = Close(segs)
    /\ shared' = [shared EXCEPT !.writerFailed = TRUE, !.fatalError = TRUE]
    /\ ev' = LET woken == SetEvent(SetEvent(ev, "spaceAvailable"), "dataReady")
             IN IF hasStopCallback THEN SetEvent(woken, "userStop") ELSE woken
    /\ enc' = [e EXCEPT !.pc = "done", !.chunk = <<>>]

\* line 332-333: openWriterForSegment(0); enc.opened keeps, as history, the
\* indices the writers were constructed for
EncOpenFirst ==
    /\ enc.pc = "open"
    /\ \/ /\ segments' = <<NewWriter>>
          /\ shared' = [shared EXCEPT !.segmentsOpened = 1]
          /\ enc' = [enc EXCEPT !.pc = "loop",
                                !.opened = Append(@, enc.currentSegmentIndex)]
          /\ UNCHANGED ev
       \/ EncCatch(enc, segments)
    /\ UNCHANGED <<ringVars, writeVars, readVars, histVars, cfg, env, cap, stats,
                   watchPc, result, pktLog, pushOk>>

\* rollSegment, lines 334-337: entered with the place to go back to
EnterRoll(e, back) ==
    IF segmentationEnabled
    THEN [e EXCEPT !.pc = "rollclose", !.rollRet = back]
    ELSE [e EXCEPT !.pc = back]

\* a request callback that answers without taking the flag down
requestNewSegmentKept(e) == e

\* controls.requestNewSegment answering true (main.cpp, lines 344-347): the
\* compare_exchange_strong takes segmentRequested down
requestNewSegment(e) == [e EXCEPT !.segmentRequested = FALSE, !.owed = FALSE]

\* the encode loop that leaves as soon as the capture loop has stopped
writerLoopConditionNoDrain == shared.writerActive

\* line 361: the test of the encode loop
writerLoopCondition == shared.writerActive \/ AvailableToRead > 0

\* lines 361-364: the loop test and consumeManualSegment (lines 280-285; the
\* callback is main.cpp's compare_exchange_strong on segmentRequested)
EncLoopTop ==
    /\ enc.pc = "loop"
    /\ IF writerLoopCondition
       THEN IF manualSegmentsEnabled /\ env.segmentRequested
            THEN /\ env' = requestNewSegment(env)
                 /\ enc' = EnterRoll([enc EXCEPT !.manualRolls = @ + 1], "read")
            ELSE /\ enc' = [enc EXCEPT !.pc = "read"]
                 /\ UNCHANGED env
       ELSE /\ enc' = [enc EXCEPT !.pc = "finish"]
            /\ UNCHANGED env
    /\ UNCHANGED <<ringVars, writeVars, readVars, histVars, cfg, ev, shared, cap, stats,
                   watchPc, segments, result, pktLog, pushOk>>

\* lines 365-366: ring.Read(chunk.data(), chunk.size())
EncRead ==
    /\ enc.pc = "read"
    /\ LET bytes == ReadCount(chunkBytes)
           data == ReadData(bytes)
       IN IF bytes = 0
          THEN /\ enc' = [enc EXCEPT !.pc = "datawait"]
               /\ UNCHANGED <<readPos, readOut>>
          ELSE /\ readPos' = readPos + bytes
               /\ readOut' = readOut \o data
               /\ enc' = [enc EXCEPT !.pc = "write", !.chunk = data]
    /\ UNCHANGED <<capacity, buffer, writePos, writeVars, readVars, written, cfg, env, ev,
                   shared, cap, stats, watchPc, segments, result, pktLog, pushOk>>

\* lines 367-376: the bounded wait for dataReadyEvent
EncDataWait ==
    /\ enc.pc = "datawait"
    /\ \/ /\ ev.dataReady
          /\ ev' = ResetEvent(ev, "dataReady")
          /\ UNCHANGED shared
       \/ /\ ~ev.dataReady
          /\ shared' = [shared EXCEPT !.writerWaitTimeouts = Bump(@)]
          /\ UNCHANGED ev
    /\ enc' = [enc EXCEPT !.pc = "loop"]
    /\ UNCHANGED <<ringVars, writeVars, readVars, histVars, cfg, env, cap, stats,
                   watchPc, segments, result, pktLog, pushOk>>

\* lines 385-399: SetEvent(spaceAvailableEvent) and the rollover test
AfterChunk(e) ==
    LET rotate == \/ (segmentFrameTarget # None /\ e.framesInSegment >= segmentFrameTarget)
                  \/ (segmentByteTarget # None /\ e.bytesInSegment >= segmentByteTarget)
    IN IF rotate THEN EnterRoll(e, "loop") ELSE [e EXCEPT !.pc = "loop"]

\* lines 377-381: segmentWriter->Write and the per-segment counters
EncWrite ==
    /\ enc.pc = "write"
    /\ \/ LET bytes == Len(enc.chunk)
              cur == enc.currentSegmentIndex + 1
              e == [enc EXCEPT !.chunk = <<>>,
                               !.bytesPendingFlush = @ + bytes,
                               !.bytesInSegment = @ + bytes,
                               !.framesInSegment = @ + (bytes \div BytesPerFrame)]
          IN /\ segments' = [segments EXCEPT ![cur].data = @ \o enc.chunk]
             /\ IF e.bytesPendingFlush >= flushThreshold
                THEN /\ enc' = [e EXCEPT !.pc = "flush"]
                     /\ UNCHANGED ev
                ELSE /\ enc' = AfterChunk(e)
                     /\ ev' = SetEvent(ev, "spaceAvailable")
             /\ UNCHANGED shared
       \/ EncCatch(enc, StreamFailed(segments))
    /\ UNCHANGED <<ringVars, writeVars, readVars, histVars, cfg, env, cap, stats,
                   watchPc, result, pktLog, pushOk>>

\* lines 381-385: the periodic segmentWriter->Flush()
EncFlush ==
    /\ enc.pc = "flush"
    /\ \/ /\ enc' = AfterChunk([enc EXCEPT !.bytesPendingFlush = 0])
          /\ ev' = SetEvent(ev, "spaceAvailable")
          /\ UNCHANGED <<shared, segments>>
       \/ EncCatch(enc, StreamFailed(segments))
    /\ UNCHANGED <<ringVars, writeVars, readVars, histVars, cfg, env, cap, stats,
                   watchPc, result, pktLog, pushOk>>

\* rollSegment, lines 338-344: Flush and Close of the current writer
EncRollClose ==
    /\ enc.pc = "rollclose"
    /\ \/ /\ segments' = Close(segments)
          /\ enc' = [enc EXCEPT !.pc = "rollopen", !.bytesPendingFlush = 0]
          /\ UNCHANGED <<shared, ev>>
       \/ EncCatch(enc, StreamFailed(segments))
    /\ UNCHANGED <<ringVars, writeVars, readVars, histVars, cfg, env, cap, stats,
                   watchPc, result, pktLog, pushOk>>

\* rollSegment, lines 345-358: the next index, its writer, the counters
EncRollOpen ==
    /\ enc.pc = "rollopen"
    /\ LET index == enc.currentSegmentIndex + 1
       IN \/ /\ segments' = Append(segments, NewWriter)
             /\ enc' = [enc EXCEPT !.pc = enc.rollRet,
                                   !.rollRet = "loop",
                                   !.currentSegmentIndex = index,
                                   !.opened = Append(@, index),
                                   !.framesInSegment = 0,
                                   !.bytesInSegment = 0,
                                   !.bytesPendingFlush = 0]
             /\ shared' = [shared EXCEPT !.segmentsOpened = index + 1]
             /\ UNCHANGED ev
          \/ EncCatch([enc EXCEPT !.currentSegmentIndex = index], segments)
    /\ UNCHANGED <<ringVars, writeVars, readVars, histVars, cfg, env, cap, stats,
                   watchPc, result, pktLog, pushOk>>

\* lines 401-404: the last Flush, and the writer closed as the try block ends
EncFinish ==
    /\ enc.pc = "finish"
    /\ \/ /\ segments' = Close(segments)
          /\ enc' = [enc EXCEPT !.pc = "done", !.bytesPendingFlush = 0]
          /\ UNCHANGED <<shared, ev>>
       \/ /\ enc.bytesPendingFlush > 0
          /\ EncCatch(enc, StreamFailed(segments))
    /\ UNCHANGED <<ringVars, writeVars, readVars, histVars, cfg, env, cap, stats,
                   watchPc, result, pktLog, pushOk>>

\* ---- the session ----

\* the state when both threads have been started (line 416)
SessionStart(sessions) ==
    /\ \E session \in sessions :
          /\ cfg = session[1]
          /\ env = [stopRequested |-> FALSE, segmentRequested |-> FALSE, requests |-> 0,
                    owed |-> FALSE, world |-> session[2]]
    /\ capacity = CtorCapacity(ringCapacityBytes)
    /\ buffer = [i \in 0..(capacity - 1) |-> [pkt |-> 0, idx |-> 0, val |-> 0]]
    /\ writePos = 0
    /\ readPos = 0
    /\ wpc = "idle" /\ wData = <<>> /\ wBytes = 0 /\ wPos = 0 /\ wRet = 0
    /\ rpc = "idle" /\ rBytes = 0 /\ rPos = 0 /\ rDest = <<>> /\ rRet = 0
    /\ written = <<>>
    /\ readOut = <<>>
    /\ ev = [dataReady |-> FALSE, spaceAvailable |-> TRUE, userStop |-> FALSE]
    /\ shared = [writerActive |-> TRUE, writerWaitTimeouts |-> 0, writerFailed |-> FALSE,
                 fatalError |-> FALSE, segmentsOpened |-> 1, stopWatcherTerminate |-> FALSE]
    /\ cap = [pc |-> "top", staging |-> <<>>, acceptedBytes |-> 0, framesRecorded |-> 0,
              outcome |-> "none", timeoutsSinceStop |-> 0, engineError |-> "none"]
    /\ stats = [framesCaptured |-> 0, silentFrames |-> 0, glitchCount |-> 0,
                watchdogTimeouts |-> 0, ringBufferWaits |-> 0, ringBufferTimeouts |-> 0,
                writerWaitTimeouts |-> 0, framesDropped |-> 0, deviceInvalidated |-> FALSE,
                framesWhilePaused |-> 0, segmentsWritten |-> 1]
    /\ enc = [pc |-> "open", chunk |-> <<>>, bytesPendingFlush |-> 0,
              currentSegmentIndex |-> 0, framesInSegment |-> 0, bytesInSegment |-> 0,
              rollRet |-> "loop", manualRolls |-> 0, opened |-> <<>>]
    /\ watchPc = IF hasStopCallback THEN "run" ELSE "none"
    /\ segments = <<>>
    /\ result = [kind |-> "running", stats |-> stats]
    /\ pktLog = <<>>
    /\ pushOk = TRUE

SessionInit == SessionStart(Sessions)

SessionNext ==
    \/ UserStop
    \/ RequestSegment
    \/ Stall
    \/ CapTop
    \/ CapWait
    \/ CapGetNextPacketSize
    \/ CapPacket
    \/ CapPush
    \/ CapPushWait
    \/ CapShutdown
    \/ CapJoinWatcher
    \/ CapFinalize
    \/ CapReturn
    \/ CapGuard
    \/ CapJoinWriter
    \/ StopWatcher
    \/ EncOpenFirst
    \/ EncLoopTop
    \/ EncRead
    \/ EncDataWait
    \/ EncWrite
    \/ EncFlush
    \/ EncRollClose
    \/ EncRollOpen
    \/ EncFinish

Spec == SessionInit /\ [][SessionNext]_vars

(***************************************************************************)
(* A longer session with a segment duration: no stop callback, a duration *)
(* limit of LongSec seconds, a duration target of SegmentSec seconds,      *)
(* packets of MaxFrames frames up to the duration limit.                   *)
(***************************************************************************)
LongSec == 5

Long ==
    [Steady EXCEPT !.packets = (SampleRate * LongSec) \div MaxFrames, !.frames = {MaxFrames}]

SegmentsInit ==
    SessionStart({<<[Plain EXCEPT !.shouldStop = FALSE, !.maxDuration = LongSec,
                                  !.segmentDuration = SegmentSec], Long>>})

SegmentsNext ==
    \/ CapTop
    \/ CapWait
    \/ CapGetNextPacketSize
    \/ CapPacket
    \/ CapPush
    \/ CapPushWait
    \/ CapShutdown
    \/ CapFinalize
    \/ CapReturn
    \/ CapGuard
    \/ CapJoinWriter
    \/ EncOpenFirst
    \/ EncLoopTop
    \/ EncRead
    \/ EncDataWait
    \/ EncWrite
    \/ EncFlush
    \/ EncRollClose
    \/ EncRollOpen
    \/ EncFinish

SpecSegments == SegmentsInit /\ [][SegmentsNext]_vars

(***************************************************************************)
(* Sessions with glitches: the engine flags packets, its event may be      *)
(* late, the ring may be full; with and without failOnGlitch.              *)
(***************************************************************************)
Glitchy == [Steady EXCEPT !.frames = {MaxFrames}, !.flags = TRUE]

GlitchInit ==
    SessionStart({<<Plain, Glitchy>>, <<[Plain EXCEPT !.failOnGlitch = TRUE], Glitchy>>})

GlitchNext ==
    \/ UserStop
    \/ CapTop
    \/ CapWait
    \/ CapGetNextPacketSize
    \/ CapPacket
    \/ CapPush
    \/ CapPushWait
    \/ CapShutdown
    \/ CapJoinWatcher
    \/ CapFinalize
    \/ CapReturn
    \/ CapGuard
    \/ CapJoinWriter
    \/ StopWatcher
    \/ EncOpenFirst
    \/ EncLoopTop
    \/ EncRead
    \/ EncDataWait
    \/ EncWrite
    \/ EncFlush
    \/ EncFinish

SpecGlitch == GlitchInit /\ [][GlitchNext]_vars

(***************************************************************************)
(* Sessions with a duration limit: no stop callback, a pause callback, and *)
(* an engine that delivers more frames than the limit.                     *)
(***************************************************************************)
LimitSec == 1

LimitInit ==
    SessionStart({<<[Plain EXCEPT !.shouldStop = FALSE, !.isPaused = TRUE,
                                  !.maxDuration = LimitSec],
                    [Steady EXCEPT !.packets = MaxPackets + 1,
                                   !.frames = 1..(MaxFrames + 1)]>>})

LimitNext ==
    \/ CapTop
    \/ CapWait
    \/ CapGetNextPacketSize
    \/ CapPacket
    \/ CapPush
    \/ CapPushWait
    \/ CapShutdown
    \/ CapFinalize
    \/ CapReturn
    \/ CapGuard
    \/ CapJoinWriter
    \/ EncOpenFirst
    \/ EncLoopTop
    \/ EncRead
    \/ EncDataWait
    \/ EncWrite
    \/ EncFlush
    \/ EncFinish

SpecLimit == LimitInit /\ [][LimitNext]_vars

(***************************************************************************)
(* A session whose engine never runs out of packets                        *)
(*                                                                         *)
(* The engine has a packet ready whenever it likes, without end.  To keep  *)
(* the states finite the steps that handle audio are followed without      *)
(* their data and their counts: the bytes are all alike, the statistics    *)
(* and the histories stay as they are, and the ring cursors are followed   *)
(* modulo the capacity, which keeps their offsets and their difference.    *)
(* Every thread that can take a step eventually takes one.                 *)
(***************************************************************************)

\* the cursors after a Read, reduced by the capacity once the read cursor
\* has passed it
Rewind(w, r) == IF r >= capacity THEN <<w - capacity, r - capacity>> ELSE <<w, r>>

\* bytes of audio, n of them
SomeBytes(n) == [i \in 1..n |-> [pkt |-> 0, idx |-> 0, val |-> 0]]

\* lines 553-558 and 621-626: GetNextPacketSize and the tests of the loops
BusyGetNextPacketSize ==
    /\ cap.pc = "size"
    /\ \E packetLength \in {0, 1} :
          cap' = [cap EXCEPT !.pc = IF packetLength > 0 THEN "packet" ELSE "top"]
    /\ UNCHANGED <<ringVars, writeVars, readVars, histVars, cfg, env, ev, shared, stats, enc,
                   watchPc, segments, result, pktLog, pushOk>>

\* lines 560-605: GetBuffer, the staging copy, ReleaseBuffer
BusyPacket ==
    /\ cap.pc = "packet"
    /\ \E frames \in env.world.frames :
          cap' = [cap EXCEPT !.pc = "push",
                             !.staging = SomeBytes(frames * BytesPerFrame),
                             !.acceptedBytes = 0]
    /\ UNCHANGED <<ringVars, writeVars, readVars, histVars, cfg, env, ev, shared, stats, enc,
                   watchPc, segments, result, pktLog, pushOk>>

\* lines 607-621: the packet is done, GetNextPacketSize is next
BusyAfterPush(c) == [c EXCEPT !.staging = <<>>, !.acceptedBytes = 0, !.pc = "size"]

\* pushToRing, lines 485-491 and 512-515
BusyPush ==
    /\ cap.pc = "push"
    /\ LET bytes == Len(cap.staging)
           wrote == WriteCount(bytes - cap.acceptedBytes)
           acceptedBytes == cap.acceptedBytes + wrote
       IN IF wrote = 0
          THEN /\ cap' = [cap EXCEPT !.pc = IF shared.fatalError THEN "shutdown" ELSE "pushwait"]
               /\ UNCHANGED <<writePos, ev>>
          ELSE /\ writePos' = writePos + wrote
               /\ ev' = SetEvent(ev, "dataReady")
               /\ cap' = IF acceptedBytes < bytes
                         THEN [cap EXCEPT !.acceptedBytes = acceptedBytes]
                         ELSE BusyAfterPush(cap)
    /\ UNCHANGED <<capacity, buffer, readPos, writeVars, readVars, histVars, cfg, env, shared,
                   stats, enc, watchPc, segments, result, pktLog, pushOk>>

\* pushToRing, lines 492-511
BusyPushWait ==
    /\ cap.pc = "pushwait"
    /\ \/ /\ ev.spaceAvailable
          /\ ev' = ResetEvent(ev, "spaceAvailable")
          /\ cap' = [cap EXCEPT !.pc = "push"]
       \/ /\ ~ev.spaceAvailable
          /\ cap' = IF cfg.failOnGlitch
                    THEN [cap EXCEPT !.pc = "shutdown"]
                    ELSE BusyAfterPush(cap)
          /\ UNCHANGED ev
    /\ UNCHANGED <<ringVars, writeVars, readVars, histVars, cfg, env, shared, stats, enc,
                   watchPc, segments, result, pktLog, pushOk>>

\* lines 365-366: ring.Read(chunk.data(), chunk.size())
BusyRead ==
    /\ enc.pc = "read"
    /\ LET bytes == ReadCount(chunkBytes)
           cursors == Rewind(writePos, readPos + bytes)
       IN IF bytes = 0
          THEN /\ enc' = [enc EXCEPT !.pc = "datawait"]
               /\ UNCHANGED <<writePos, readPos>>
          ELSE /\ writePos' = cursors[1]
               /\ readPos' = cursors[2]
               /\ enc' = [enc EXCEPT !.pc = "write", !.chunk = SomeBytes(bytes)]
    /\ UNCHANGED <<capacity, buffer, writeVars, readVars, histVars, cfg, env, ev,
                   shared, cap, stats, watchPc, segments, result, pktLog, pushOk>>

\* lines 377-385: segmentWriter->Write, which completes, and the flush test
BusyWrite ==
    /\ enc.pc = "write"
    /\ LET e == [enc EXCEPT !.chunk = <<>>, !.bytesPendingFlush = @ + Len(enc.chunk)]
       IN IF e.bytesPendingFlush >= flushThreshold
          THEN /\ enc' = [e EXCEPT !.pc = "flush"]
               /\ UNCHANGED ev
          ELSE /\ enc' = [e EXCEPT !.pc = "loop"]
               /\ ev' = SetEvent(ev, "spaceAvailable")
    /\ UNCHANGED <<ringVars, writeVars, readVars, histVars, cfg, env, shared, cap, stats,
                   watchPc, segments, result, pktLog, pushOk>>

BusyInit == SessionStart({<<Plain, Steady>>})

\* the steps of the thread that called Record
BusyCapStep ==
    \/ CapTop
    \/ CapWait
    \/ BusyGetNextPacketSize
    \/ BusyPacket
    \/ BusyPush
    \/ BusyPushWait
    \/ CapShutdown
    \/ CapJoinWatcher
    \/ CapFinalize
    \/ CapReturn
    \/ CapGuard
    \/ CapJoinWriter

\* the steps of the writer thread
BusyEncStep ==
    \/ EncOpenFirst
    \/ EncLoopTop
    \/ BusyRead
    \/ EncDataWait
    \/ BusyWrite
    \/ EncFlush
    \/ EncFinish

BusyNext ==
    \/ UserStop
    \/ StopWatcher
    \/ BusyCapStep
    \/ BusyEncStep

BusyFair ==
    /\ WF_vars(BusyCapStep)
    /\ WF_vars(BusyEncStep)
    /\ WF_vars(StopWatcher)

SpecBusy == BusyInit /\ [][BusyNext]_vars /\ BusyFair

(***************************************************************************)
(* Record from its first line: the device and format checks, the engine    *)
(* calls up to audioClient->Start(), the creation of the threads, then the *)
(* session.  env.device tells whether device_ is set, env.format is what   *)
(* GetMixFormat answers, env.streaming whether the capture stream has been *)
(* started.                                                                *)
(***************************************************************************)

\* WAVEFORMATEX / WAVEFORMATEXTENSIBLE as far as IsSupportedFormat reads
\* them; SubFormat is there for WAVE_FORMAT_EXTENSIBLE only
Formats ==
    [wFormatTag : {"WAVE_FORMAT_PCM", "WAVE_FORMAT_IEEE_FLOAT", "WAVE_FORMAT_ADPCM"},
     wBitsPerSample : {16, 24, 32}, SubFormat : {None}]
    \cup [wFormatTag : {"WAVE_FORMAT_EXTENSIBLE"}, wBitsPerSample : {16, 24, 32},
          SubFormat : {"KSDATAFORMAT_SUBTYPE_PCM", "KSDATAFORMAT_SUBTYPE_IEEE_FLOAT",
                       "KSDATAFORMAT_SUBTYPE_ALAW"}]

\* a null WAVEFORMATEX pointer
NullFormat == [wFormatTag |-> "nullptr", wBitsPerSample |-> 0, SubFormat |-> None]

\* a format test that does not look at the sample size
IsSupportedFormatAnyBits(format) ==
    IF format = NullFormat THEN FALSE
    ELSE format.wFormatTag \in {"WAVE_FORMAT_IEEE_FLOAT", "WAVE_FORMAT_PCM", "WAVE_FORMAT_EXTENSIBLE"}

\* IsSupportedFormat, lines 89-109
IsSupportedFormat(format) ==
    IF format = NullFormat THEN FALSE
    ELSE IF format.wFormatTag = "WAVE_FORMAT_IEEE_FLOAT" /\ format.wBitsPerSample = 32 THEN TRUE
    ELSE IF format.wFormatTag = "WAVE_FORMAT_PCM" /\ format.wBitsPerSample = 16 THEN TRUE
    ELSE IF format.wFormatTag = "WAVE_FORMAT_EXTENSIBLE"
         THEN IF format.SubFormat = "KSDATAFORMAT_SUBTYPE_PCM" /\ format.wBitsPerSample = 16
              THEN TRUE
              ELSE format.SubFormat = "KSDATAFORMAT_SUBTYPE_IEEE_FLOAT"
                       /\ format.wBitsPerSample = 32
    ELSE FALSE

\* a throw of Record before its threads exist; cap.thrownAt keeps, as
\* history, the line that threw
RecThrow ==
    /\ cap' = [cap EXCEPT !.pc = "done", !.outcome = "thrown", !.thrownAt = cap.pc]
    /\ result' = [kind |-> "thrown", stats |-> stats]

\* one line of the prologue that went through
RecGoOn(next) ==
    /\ cap' = [cap EXCEPT !.pc = next]
    /\ UNCHANGED result

\* lines 130-132: device_
RecDevice ==
    /\ cap.pc = "device"
    /\ IF env.device THEN RecGoOn("activate") ELSE RecThrow
    /\ UNCHANGED <<ringVars, writeVars, readVars, histVars, cfg, env, ev, shared, stats, enc,
                   watchPc, segments, pktLog, pushOk>>

\* lines 134-149: Activate and GetMixFormat; either may fail
RecGetMixFormat ==
    /\ cap.pc = "activate"
    /\ \E ok \in BOOLEAN : IF ok THEN RecGoOn("validate") ELSE RecThrow
    /\ UNCHANGED <<ringVars, writeVars, readVars, histVars, cfg, env, ev, shared, stats, enc,
                   watchPc, segments, pktLog, pushOk>>

\* line 151 and lines 667-671: ValidateFormat
ValidateFormat ==
    /\ cap.pc = "validate"
    /\ IF IsSupportedFormat(env.format) THEN RecGoOn("initialize") ELSE RecThrow
    /\ UNCHANGED <<ringVars, writeVars, readVars, histVars, cfg, env, ev, shared, stats, enc,
                   watchPc, segments, pktLog, pushOk>>

\* lines 153-206: Initialize, SetEventHandle, GetService and the events; any
\* of them may fail
RecInitialize ==
    /\ cap.pc = "initialize"
    /\ \E ok \in BOOLEAN : IF ok THEN RecGoOn("start") ELSE RecThrow
    /\ UNCHANGED <<ringVars, writeVars, readVars, histVars, cfg, env, ev, shared, stats, enc,
                   watchPc, segments, pktLog, pushOk>>

\* lines 208-215: audioClient->Start()
RecStart ==
    /\ cap.pc = "start"
    /\ \E ok \in BOOLEAN :
          IF ok
          THEN /\ RecGoOn("threads")
               /\ env' = [env EXCEPT !.streaming = TRUE]
          ELSE /\ RecThrow
               /\ UNCHANGED env
    /\ UNCHANGED <<ringVars, writeVars, readVars, histVars, cfg, ev, shared, stats, enc,
                   watchPc, segments, pktLog, pushOk>>

\* lines 244-416: the stop watcher and the writer thread are created; the
\* capture loop is next
RecThreads ==
    /\ cap.pc = "threads"
    /\ cap' = [cap EXCEPT !.pc = "top"]
    /\ enc' = [enc EXCEPT !.pc = "open"]
    /\ watchPc' = IF hasStopCallback THEN "run" ELSE "none"
    /\ UNCHANGED <<ringVars, writeVars, readVars, histVars, cfg, env, ev, shared, stats,
                   segments, result, pktLog, pushOk>>

\* Record is entered: nothing has been done yet
StartInit ==
    /\ cfg = Plain
    /\ \E device \in BOOLEAN, format \in Formats \cup {NullFormat} :
          env = [stopRequested |-> FALSE, segmentRequested |-> FALSE, requests |-> 0,
                 owed |-> FALSE, world |-> [Steady EXCEPT !.frames = {MaxFrames}, !.writerFails = TRUE],
                 device |-> device, format |-> format, streaming |-> FALSE]
    /\ capacity = CtorCapacity(ringCapacityBytes)
    /\ buffer = [i \in 0..(capacity - 1) |-> [pkt |-> 0, idx |-> 0, val |-> 0]]
    /\ writePos = 0
    /\ readPos = 0
    /\ wpc = "idle" /\ wData = <<>> /\ wBytes = 0 /\ wPos = 0 /\ wRet = 0
    /\ rpc = "idle" /\ rBytes = 0 /\ rPos = 0 /\ rDest = <<>> /\ rRet = 0
    /\ written = <<>>
    /\ readOut = <<>>
    /\ ev = [dataReady |-> FALSE, spaceAvailable |-> TRUE, userStop |-> FALSE]
    /\ shared = [writerActive |-> TRUE, writerWaitTimeouts |-> 0, writerFailed |-> FALSE,
                 fatalError |-> FALSE, segmentsOpened |-> 1, stopWatcherTerminate |-> FALSE]
    /\ cap = [pc |-> "device", staging |-> <<>>, acceptedBytes |-> 0, framesRecorded |-> 0,
              outcome |-> "none", timeoutsSinceStop |-> 0, engineError |-> "none",
              thrownAt |-> "none"]
    /\ stats = [framesCaptured |-> 0, silentFrames |-> 0, glitchCount |-> 0,
                watchdogTimeouts |-> 0, ringBufferWaits |-> 0, ringBufferTimeouts |-> 0,
                writerWaitTimeouts |-> 0, framesDropped |-> 0, deviceInvalidated |-> FALSE,
                framesWhilePaused |-> 0, segmentsWritten |-> 1]
    /\ enc = [pc |-> "unborn", chunk |-> <<>>, bytesPendingFlush |-> 0,
              currentSegmentIndex |-> 0, framesInSegment |-> 0, bytesInSegment |-> 0,
              rollRet |-> "loop", manualRolls |-> 0, opened |-> <<>>]
    /\ watchPc = "none"
    /\ segments = <<>>
    /\ result = [kind |-> "running", stats |-> stats]
    /\ pktLog = <<>>
    /\ pushOk = TRUE

StartNext ==
    \/ RecDevice
    \/ RecGetMixFormat
    \/ ValidateFormat
    \/ RecInitialize
    \/ RecStart
    \/ RecThreads
    \/ UserStop
    \/ CapTop
    \/ CapWait
    \/ CapGetNextPacketSize
    \/ CapPacket
    \/ CapPush
    \/ CapPushWait
    \/ CapShutdown
    \/ CapJoinWatcher
    \/ CapFinalize
    \/ CapReturn
    \/ CapGuard
    \/ CapJoinWriter
    \/ StopWatcher
    \/ EncOpenFirst
    \/ EncLoopTop
    \/ EncRead
    \/ EncDataWait
    \/ EncWrite
    \/ EncFlush
    \/ EncFinish

SpecStart == StartInit /\ [][StartNext]_vars

(***************************************************************************)
(* The catch block of the writer thread, statement by statement            *)
(*                                                                         *)
(* writerErrorMessage (line 240) is a std::string, not an atomic.  The     *)
(* catch block stores writerFailed, then assigns the message, then stores  *)
(* fatalError and sets the events; Record loads writerFailed and reads the *)
(* message (lines 661-662).  shared.writerErrorMessage is "" before the    *)
(* assignment, "writing" during it and "what" after it; cap.message is     *)
(* what the throw of line 662 carried.  A read that is not ordered after   *)
(* the assignment may see any of the three.                                *)
(***************************************************************************)

\* a writer call throws std::exception: the try block is unwound, the
\* writer in segmentWriter, if there is one, is destroyed (closed)
EncThrow ==
    /\ enc.pc \in {"open", "write", "flush", "finish"}
    /\ segments' = Close(StreamFailed(segments))
    /\ enc' = [enc EXCEPT !.pc = "catch", !.chunk = <<>>]
    /\ UNCHANGED <<ringVars, writeVars, readVars, histVars, cfg, env, ev, shared, cap, stats,
                   watchPc, result, pktLog, pushOk>>

\* line 405: writerFailed.store(true, std::memory_order_release)
EncCatchStore ==
    /\ enc.pc = "catch"
    /\ shared' = [shared EXCEPT !.writerFailed = TRUE]
    /\ enc' = [enc EXCEPT !.pc = "message"]
    /\ UNCHANGED <<ringVars, writeVars, readVars, histVars, cfg, env, ev, cap, stats,
                   watchPc, segments, result, pktLog, pushOk>>

\* line 406: writerErrorMessage = ex.what(), an assignment that takes time
EncCatchMessage ==
    /\ enc.pc = "message"
    /\ IF shared.writerErrorMessage = ""
       THEN /\ shared' = [shared EXCEPT !.writerErrorMessage = "writing"]
            /\ UNCHANGED enc
       ELSE /\ shared' = [shared EXCEPT !.writerErrorMessage = "what"]
            /\ enc' = [enc EXCEPT !.pc = "fatal"]
    /\ UNCHANGED <<ringVars, writeVars, readVars, histVars, cfg, env, ev, cap, stats,
                   watchPc, segments, result, pktLog, pushOk>>

\* lines 407-412: fatalError.store(true) and the three SetEvent
EncCatchFatal ==
    /\ enc.pc = "fatal"
    /\ shared' = [shared EXCEPT !.fatalError = TRUE]
    /\ ev' = LET woken == SetEvent(SetEvent(ev, "spaceAvailable"), "dataReady")
             IN IF hasStopCallback THEN SetEvent(woken, "userStop") ELSE woken
    /\ enc' = [enc EXCEPT !.pc = "done"]
    /\ UNCHANGED <<ringVars, writeVars, readVars, histVars, cfg, env, cap, stats,
                   watchPc, segments, result, pktLog, pushOk>>

\* what a read of writerErrorMessage yields
ReadMessage ==
    IF shared.writerErrorMessage = "what" THEN {"what"} ELSE {"", "torn", "what"}

\* lines 660-664: the loads of writerWaitTimeouts and writerFailed, the read
\* of writerErrorMessage for the throw, or the copy of stats
RaceReturn ==
    /\ cap.pc = "return"
    /\ stats' = [stats EXCEPT !.writerWaitTimeouts = shared.writerWaitTimeouts]
    /\ IF shared.writerFailed
       THEN \E message \in ReadMessage :
               cap' = [cap EXCEPT !.pc = "guard", !.outcome = "thrown", !.message = message]
       ELSE cap' = [cap EXCEPT !.pc = "guard", !.outcome = "returned"]
    /\ UNCHANGED <<ringVars, writeVars, readVars, histVars, cfg, env, ev, shared, enc,
                   watchPc, segments, result, pktLog, pushOk>>

RaceInit ==
    /\ cfg = Plain
    /\ env = [stopRequested |-> FALSE, segmentRequested |-> FALSE, requests |-> 0,
              owed |-> FALSE, world |-> [Steady EXCEPT !.frames = {MaxFrames}]]
    /\ capacity = CtorCapacity(ringCapacityBytes)
    /\ buffer = [i \in 0..(capacity - 1) |-> [pkt |-> 0, idx |-> 0, val |-> 0]]
    /\ writePos = 0
    /\ readPos = 0
    /\ wpc = "idle" /\ wData = <<>> /\ wBytes = 0 /\ wPos = 0 /\ wRet = 0
    /\ rpc = "idle" /\ rBytes = 0 /\ rPos = 0 /\ rDest = <<>> /\ rRet = 0
    /\ written = <<>>
    /\ readOut = <<>>
    /\ ev = [dataReady |-> FALSE, spaceAvailable |-> TRUE, userStop |-> FALSE]
    /\ shared = [writerActive |-> TRUE, writerWaitTimeouts |-> 0, writerFailed |-> FALSE,
                 fatalError |-> FALSE, segmentsOpened |-> 1, stopWatcherTerminate |-> FALSE,
                 writerErrorMessage |-> ""]
    /\ cap = [pc |-> "top", staging |-> <<>>, acceptedBytes |-> 0, framesRecorded |-> 0,
              outcome |-> "none", timeoutsSinceStop |-> 0, engineError |-> "none",
              message |-> "none"]
    /\ stats = [framesCaptured |-> 0, silentFrames |-> 0, glitchCount |-> 0,
                watchdogTimeouts |-> 0, ringBufferWaits |-> 0, ringBufferTimeouts |-> 0,
                writerWaitTimeouts |-> 0, framesDropped |-> 0, deviceInvalidated |-> FALSE,
                framesWhilePaused |-> 0, segmentsWritten |-> 1]
    /\ enc = [pc |-> "open", chunk |-> <<>>, bytesPendingFlush |-> 0,
              currentSegmentIndex |-> 0, framesInSegment |-> 0, bytesInSegment |-> 0,
              rollRet |-> "loop", manualRolls |-> 0, opened |-> <<>>]
    /\ watchPc = "run"
    /\ segments = <<>>
    /\ result = [kind |-> "running", stats |-> stats]
    /\ pktLog = <<>>
    /\ pushOk = TRUE

RaceNext ==
    \/ UserStop
    \/ StopWatcher
    \/ CapTop
    \/ CapWait
    \/ CapGetNextPacketSize
    \/ CapPacket
    \/ CapPush
    \/ CapPushWait
    \/ CapShutdown
    \/ CapJoinWatcher
    \/ CapFinalize
    \/ RaceReturn
    \/ CapGuard
    \/ CapJoinWriter
    \/ EncOpenFirst
    \/ EncLoopTop
    \/ EncRead
    \/ EncDataWait
    \/ EncWrite
    \/ EncFlush
    \/ EncFinish
    \/ EncThrow
    \/ EncCatchStore
    \/ EncCatchMessage
    \/ EncCatchFatal

SpecRace == RaceInit /\ [][RaceNext]_vars

(***************************************************************************)
(* The calling layers: wmain (main.cpp) and RunRecorder (GuiApp.cpp)       *)
(*                                                                         *)
(* One run of a caller: it acquires the device, calls Record, and opens a  *)
(* new session after a lost device.  env holds the caller's flags and      *)
(* locals, stats the statistics the last Record call returned.  Record is  *)
(* a call that returns, with deviceInvalidated set or not, or throws.      *)
(* env.asked and env.calls are history: whether the user has asked to      *)
(* stop, and how many times Record was called.                             *)
(***************************************************************************)
kMaxReconnectAttempts == 3

Callers == {"wmain", "RunRecorder"}

\* the run is over: the exception handler or the end of the function
RunLeave(e) == [e EXCEPT !.pc = "exit"]

\* main.cpp 356-366, GuiApp.cpp 1349-1355: the device is acquired, or the
\* caller throws
RunAcquire ==
    /\ env.pc = "acquire"
    /\ \E device \in BOOLEAN :
          env' = IF device THEN [env EXCEPT !.pc = "record"] ELSE RunLeave(env)
    /\ UNCHANGED <<ringVars, writeVars, readVars, histVars, cfg, ev, shared, cap, stats, enc,
                   watchPc, segments, result, pktLog, pushOk>>

\* main.cpp 379, GuiApp.cpp 1385: recorder.Record(config, controls) is called
RunRecord ==
    /\ env.pc = "record"
    /\ env' = [env EXCEPT !.pc = "recording", !.calls = @ + 1]
    /\ UNCHANGED <<ringVars, writeVars, readVars, histVars, cfg, ev, shared, cap, stats, enc,
                   watchPc, segments, result, pktLog, pushOk>>

\* controls.requestNewSegment, main.cpp 344-347: the session takes the request
RunRequestNewSegment ==
    /\ env.pc = "recording"
    /\ env.segmentRequested
    /\ env' = [env EXCEPT !.segmentRequested = FALSE]
    /\ UNCHANGED <<ringVars, writeVars, readVars, histVars, cfg, ev, shared, cap, stats, enc,
                   watchPc, segments, result, pktLog, pushOk>>

\* Record returns its statistics, or throws
RunRecordReturns ==
    /\ env.pc = "recording"
    /\ \/ \E deviceInvalidated \in BOOLEAN :
             /\ stats' = [deviceInvalidated |-> deviceInvalidated]
             /\ env' = [env EXCEPT !.pc = IF env.caller = "wmain" THEN "loadstop" ELSE "test"]
       \/ /\ env' = RunLeave(env)
          /\ UNCHANGED stats
    /\ UNCHANGED <<ringVars, writeVars, readVars, histVars, cfg, ev, shared, cap, enc,
                   watchPc, segments, result, pktLog, pushOk>>

\* main.cpp 381: const bool userRequestedStop = stopRequested.load()
RunLoadStop ==
    /\ env.pc = "loadstop"
    /\ env' = [env EXCEPT !.pc = "test", !.userRequestedStop = env.stopRequested]
    /\ UNCHANGED <<ringVars, writeVars, readVars, histVars, cfg, ev, shared, cap, stats, enc,
                   watchPc, segments, result, pktLog, pushOk>>

\* main.cpp 400-406 and 413, GuiApp.cpp 1390-1396 and 1412
RunTest ==
    /\ env.pc = "test"
    /\ LET stop == IF env.caller = "wmain" THEN env.userRequestedStop ELSE env.stopRequested
       IN env' = IF stats.deviceInvalidated /\ ~stop
                 THEN IF env.reconnectAttempts >= kMaxReconnectAttempts
                      THEN RunLeave(env)
                      ELSE [env EXCEPT !.reconnectAttempts = @ + 1, !.pc = "delay"]
                 ELSE RunLeave(env)
    /\ UNCHANGED <<ringVars, writeVars, readVars, histVars, cfg, ev, shared, cap, stats, enc,
                   watchPc, segments, result, pktLog, pushOk>>

\* main.cpp 409-411, GuiApp.cpp 1408-1409: the delay is over; wmain stores
\* stopRequested = false
RunDelay ==
    /\ env.pc = "delay"
    /\ env' = [env EXCEPT !.pc = "acquire",
                          !.stopRequested = IF env.caller = "wmain" THEN FALSE ELSE @]
    /\ UNCHANGED <<ringVars, writeVars, readVars, histVars, cfg, ev, shared, cap, stats, enc,
                   watchPc, segments, result, pktLog, pushOk>>

\* main.cpp 415-416 (and the handler, 417-422), GuiApp.cpp 1413-1417
RunReturn ==
    /\ env.pc = "exit"
    /\ env' = [env EXCEPT !.pc = "done",
                          !.stopRequested = IF env.caller = "wmain" THEN TRUE ELSE @]
    /\ UNCHANGED <<ringVars, writeVars, readVars, histVars, cfg, ev, shared, cap, stats, enc,
                   watchPc, segments, result, pktLog, pushOk>>

\* main.cpp 309-333: the command thread reads a line: empty or end of
\* input (stop, and the thread ends), p, s; GuiApp.cpp 1478-1488
\* StopRecording and 1490-1497 TogglePause
UserCommand ==
    /\ env.pc # "done"
    /\ env.commandThread = "reading"
    /\ \E command \in {"", "p", "s"} :
          /\ env.caller = "RunRecorder" => command # "s"
          /\ env' = CASE command = "" ->
                            [env EXCEPT !.stopRequested = TRUE, !.asked = TRUE,
                                        !.commandThread =
                                            IF env.caller = "wmain" THEN "ended" ELSE @]
                      [] command = "p" -> [env EXCEPT !.pauseRequested = ~@]
                      [] command = "s" -> [env EXCEPT !.segmentRequested = TRUE]
    /\ UNCHANGED <<ringVars, writeVars, readVars, histVars, cfg, ev, shared, cap, stats, enc,
                   watchPc, segments, result, pktLog, pushOk>>

RunInit ==
    /\ \E caller \in Callers :
          env = [caller |-> caller, pc |-> "acquire", reconnectAttempts |-> 0,
                 stopRequested |-> FALSE, pauseRequested |-> FALSE,
                 segmentRequested |-> FALSE, userRequestedStop |-> FALSE,
                 commandThread |-> "reading", asked |-> FALSE, calls |-> 0]
    /\ stats = [deviceInvalidated |-> FALSE]
    /\ capacity = 0 /\ buffer = <<>> /\ writePos = 0 /\ readPos = 0
    /\ wpc = "idle" /\ wData = <<>> /\ wBytes = 0 /\ wPos = 0 /\ wRet = 0
    /\ rpc = "idle" /\ rBytes = 0 /\ rPos = 0 /\ rDest = <<>> /\ rRet = 0
    /\ written = <<>>
    /\ readOut = <<>>
    /\ cfg = <<>> /\ ev = <<>> /\ shared = <<>> /\ cap = <<>>
    /\ enc = <<>> /\ watchPc = "none" /\ segments = <<>>
    /\ result = <<>> /\ pktLog = <<>> /\ pushOk = TRUE

RunNext ==
    \/ RunAcquire
    \/ RunRecord
    \/ RunRequestNewSegment
    \/ RunRecordReturns
    \/ RunLoadStop
    \/ RunTest
    \/ RunDelay
    \/ RunReturn
    \/ UserCommand

SpecRun == RunInit /\ [][RunNext]_vars

(***************************************************************************)
(* SegmentNaming.cpp and RecordingUtils.cpp: the names of the files        *)
(*                                                                         *)
(* A path is its stem, a sequence of characters, and its extension; the    *)
(* directory is the same for all of them.  env holds the files of that     *)
(* directory, the caller's baseOutputPath and config.outputPath, and the   *)
(* session's currentSegmentIndex.  env.atChoice, env.opened and            *)
(* env.clobbered are history: the files that existed when outputPath was   *)
(* chosen, the paths the session has opened, and those of them that were   *)
(* there at the choice.                                                    *)
(***************************************************************************)
MaxSegments == 3       \* segments one session opens
MaxSessions == 4       \* sessions of one run
MaxIndex == 12         \* segment indices the naming is compared on

kMaxCandidates == 9999

\* std::setw(3)
kWidth == 3

Digit == <<"0", "1", "2", "3", "4", "5", "6", "7", "8", "9">>

\* operator<< of an integer: its decimal digits, most significant first
RECURSIVE Decimal(_)
Decimal(n) == IF n < 10 THEN <<Digit[n + 1]>> ELSE Append(Decimal(n \div 10), Digit[(n % 10) + 1])

\* std::setw(width) << std::setfill(L'0'): text shorter than width is filled
\* on the left, longer text is left as it is
RECURSIVE SetFill(_, _)
SetFill(text, width) == IF Len(text) >= width THEN text ELSE SetFill(<<"0">> \o text, width)

\* SegmentNaming.cpp 6-20
BuildSegmentPath(basePath, segmentIndex) ==
    LET stem == IF basePath.stem = <<>> THEN <<"segment">> ELSE basePath.stem
    IN [stem |-> stem \o <<"_">> \o SetFill(Decimal(segmentIndex + 1), kWidth),
        extension |-> basePath.extension]

\* RecordingUtils.cpp 49-55: the candidate or its first segment exists
collides(candidate, files) ==
    candidate \in files \/ BuildSegmentPath(candidate, 0) \in files

\* RecordingUtils.cpp 64-74: the candidates stem_001, stem_002, ... in turn
RECURSIVE FirstFree(_, _, _)
FirstFree(path, files, i) ==
    LET candidate == [stem |-> path.stem \o <<"_">> \o SetFill(Decimal(i), kWidth),
                      extension |-> path.extension]
    IN IF i > kMaxCandidates THEN path
       ELSE IF ~collides(candidate, files) THEN candidate
       ELSE FirstFree(path, files, i + 1)

\* RecordingUtils.cpp 45-76
EnsureUniquePath(path, files) ==
    IF path.stem = <<>> /\ path.extension = "" THEN path
    ELSE IF ~collides(path, files) THEN path
    ELSE FirstFree(path, files, 1)

\* the path the user gave, and the files that may be in its directory
\* before the run: the path itself and names a run with that path can leave
UserPath == [stem |-> <<"a">>, extension |-> ".wav"]

OldFiles ==
    { UserPath,
      BuildSegmentPath(UserPath, 0),
      BuildSegmentPath(UserPath, 1),
      BuildSegmentPath(UserPath, 2),
      BuildSegmentPath(BuildSegmentPath(UserPath, 1), 0) }

\* main.cpp 369, GuiApp.cpp 1364: config.outputPath = EnsureUniquePath(...)
NamesChoose ==
    /\ env.pc = "choose"
    /\ env' = [env EXCEPT !.pc = "open",
                          !.outputPath = EnsureUniquePath(env.baseOutputPath, env.files),
                          !.atChoice = env.files,
                          !.currentSegmentIndex = 0,
                          !.opened = <<>>,
                          !.sessions = @ + 1]
    /\ UNCHANGED <<ringVars, writeVars, readVars, histVars, cfg, ev, shared, cap, stats, enc,
                   watchPc, segments, result, pktLog, pushOk>>

\* LoopbackRecorder.cpp 320-330 and 346-355, WavWriter.cpp 13-24: the writer
\* of the current index removes the file of that name and creates it
NamesOpen ==
    /\ env.pc = "open"
    /\ LET path == BuildSegmentPath(env.outputPath, env.currentSegmentIndex)
       IN env' = [env EXCEPT !.pc = "write",
                             !.files = @ \cup {path},
                             !.opened = Append(@, path),
                             !.clobbered = @ \cup ({path} \cap env.atChoice)]
    /\ UNCHANGED <<ringVars, writeVars, readVars, histVars, cfg, ev, shared, cap, stats, enc,
                   watchPc, segments, result, pktLog, pushOk>>

\* LoopbackRecorder.cpp 345: rollSegment, ++currentSegmentIndex
NamesRoll ==
    /\ env.pc = "write"
    /\ env.currentSegmentIndex + 1 < MaxSegments
    /\ env' = [env EXCEPT !.pc = "open", !.currentSegmentIndex = @ + 1]
    /\ UNCHANGED <<ringVars, writeVars, readVars, histVars, cfg, ev, shared, cap, stats, enc,
                   watchPc, segments, result, pktLog, pushOk>>

\* Record returns: after a lost device the caller chooses a path again
\* (main.cpp 400-411, GuiApp.cpp 1390-1409), otherwise the run is over
NamesReturn ==
    /\ env.pc = "write"
    /\ \E deviceInvalidated \in BOOLEAN :
          env' = [env EXCEPT !.pc = IF deviceInvalidated /\ env.sessions < MaxSessions
                                    THEN "choose" ELSE "done"]
    /\ UNCHANGED <<ringVars, writeVars, readVars, histVars, cfg, ev, shared, cap, stats, enc,
                   watchPc, segments, result, pktLog, pushOk>>

NamesInit ==
    /\ \E files \in SUBSET OldFiles :
          env = [pc |-> "choose", files |-> files, baseOutputPath |-> UserPath,
                 outputPath |-> UserPath, atChoice |-> {}, currentSegmentIndex |-> 0,
                 opened |-> <<>>, clobbered |-> {}, sessions |-> 0]
    /\ capacity = 0 /\ buffer = <<>> /\ writePos = 0 /\ readPos = 0
    /\ wpc = "idle" /\ wData = <<>> /\ wBytes = 0 /\ wPos = 0 /\ wRet = 0
    /\ rpc = "idle" /\ rBytes = 0 /\ rPos = 0 /\ rDest = <<>> /\ rRet = 0
    /\ written = <<>>
    /\ readOut = <<>>
    /\ cfg = <<>> /\ ev = <<>> /\ shared = <<>> /\ cap = <<>> /\ stats = <<>>
    /\ enc = <<>> /\ watchPc = "none" /\ segments = <<>>
    /\ result = <<>> /\ pktLog = <<>> /\ pushOk = TRUE

NamesNext ==
    \/ NamesChoose
    \/ NamesOpen
    \/ NamesRoll
    \/ NamesReturn

SpecNames == NamesInit /\ [][NamesNext]_vars

(***************************************************************************)
(* WavWriter and Mp3StreamWriter                                           *)
(*                                                                         *)
(* One writer object and its file, driven call by call.  segments holds    *)
(* the one writer: the members of the class, the file as a reader of it    *)
(* would parse it, and, as history, what the calls did.  Write and Flush   *)
(* are called on a writer that has not been closed and has not thrown, as  *)
(* rollSegment and the encode loop do (LoopbackRecorder.cpp 338-354,       *)
(* 377-413); Close is called any number of times.                          *)
(***************************************************************************)

\* the width of WavWriter::dataBytes_ and of the header's size fields is 32
\* bits; the width is scaled down to CounterBits bits so that totals past
\* the width are within reach
CounterBits == 6

\* the largest byteCount of one Write, the most Close calls on one writer
MaxWrite == 3
MaxCloses == 3

\* sizeof(WAVEFORMATEX) with cbSize = 0: formatBlob_.size()
FormatSize == 18

Uint32(n) == n % (2 ^ CounterBits)

\* totals reach past the width of the counter
MaxWavTotal == (2 ^ CounterBits) + MaxWrite

\* the pending bytes of the MP3 writer stay below two frames
MaxMp3Total == 2 * BytesPerFrame + 1

\* WavWriter::WavWriter, lines 13-24 (WriteHeader, 62-73: both size fields
\* are written as 0), and Mp3StreamWriter::Mp3StreamWriter,
\* Mp3Converter.cpp 448-517
OpenWriter(backend) ==
    [ backend |-> backend,
      stream |-> "good",          \* stream_: "good", "failed" or "closed"
      finalized_ |-> FALSE,
      dataBytes_ |-> 0,           \* WavWriter only
      pending_ |-> 0,             \* Mp3StreamWriter only: pending_.size()
      handle_ |-> backend = "mp3",  \* Mp3StreamWriter only: the encoder is open
      file |-> [riffSize |-> 0, dataSize |-> 0, payload |-> 0, synced |-> 0, trailer |-> 0],
      total |-> 0,                \* history: bytes of the Writes that returned
      fixups |-> 0,               \* history: runs of FinalizeHeader / of the encoder flush
      closes |-> 0,               \* history: calls of Close
      failed |-> FALSE,           \* history: an operation on the stream or encoder failed
      threw |-> FALSE ]           \* history: a call threw

\* WavWriter::FinalizeHeader, lines 75-94
FinalizeHeader(w) ==
    [w EXCEPT !.file.riffSize = Uint32(4 + 8 + FormatSize + 8 + w.dataBytes_),
              !.file.dataSize = w.dataBytes_,
              !.file.synced = w.file.payload,
              !.fixups = @ + 1]

\* a Close without the test of finalized_
WavWriterCloseAgain(w) ==
    LET done == IF w.stream = "good"
                THEN [FinalizeHeader(w) EXCEPT !.stream = "closed"]
                ELSE IF w.stream = "closed"
                     THEN [w EXCEPT !.stream = "failed", !.fixups = @ + 1]
                     ELSE w
    IN [done EXCEPT !.finalized_ = TRUE]

\* WavWriter::Close, lines 51-60
WavWriterClose(w) ==
    IF w.finalized_ THEN w
    ELSE LET done == IF w.stream = "good"
                     THEN [FinalizeHeader(w) EXCEPT !.stream = "closed"]
                     ELSE w
         IN [done EXCEPT !.finalized_ = TRUE]

\* Mp3StreamWriter::Close, Mp3Converter.cpp 580-644; encoderOk is whether the
\* calls into the encoder succeed.  A failed call throws from the middle:
\* finalized_ is set, the stream and the encoder are left as they are.
Mp3StreamWriterClose(w, encoderOk) ==
    IF w.finalized_ THEN w
    ELSE LET marked == [w EXCEPT !.finalized_ = TRUE]
         IN IF marked.stream # "good"
            THEN [marked EXCEPT !.handle_ = FALSE]
            ELSE IF ~encoderOk
                 THEN [marked EXCEPT !.failed = TRUE, !.threw = TRUE]
                 ELSE [marked EXCEPT
                          !.file.payload = @ + ((w.pending_ + BytesPerFrame - 1) \div BytesPerFrame),
                          !.file.synced = w.file.payload +
                                             ((w.pending_ + BytesPerFrame - 1) \div BytesPerFrame),
                          !.pending_ = 0,
                          !.file.trailer = @ + 1,
                          !.fixups = @ + 1,
                          !.stream = "closed",
                          !.handle_ = FALSE]

WavWrite ==
    /\ Len(segments) = 1
    /\ LET w == segments[1]
       IN /\ w.backend = "wav"
          /\ w.closes = 0 /\ ~w.threw
          /\ \E byteCount \in 0..MaxWrite, ok \in BOOLEAN :
                /\ w.total + byteCount <= MaxWavTotal
                /\ segments' =
                      <<IF w.stream = "good" /\ ok
                        THEN [w EXCEPT !.dataBytes_ = Uint32(@ + byteCount),
                                       !.file.payload = @ + byteCount,
                                       !.total = @ + byteCount]
                        ELSE [w EXCEPT !.stream = "failed", !.failed = TRUE, !.threw = TRUE]>>
    /\ UNCHANGED <<ringVars, writeVars, readVars, histVars, cfg, env, ev, shared, cap, stats,
                   enc, watchPc, result, pktLog, pushOk>>

WavFlush ==
    /\ Len(segments) = 1
    /\ LET w == segments[1]
       IN /\ w.backend = "wav"
          /\ w.closes = 0 /\ ~w.threw
          /\ \E ok \in BOOLEAN :
                segments' = <<IF w.stream # "good" THEN w
                              ELSE IF ok THEN [w EXCEPT !.file.synced = w.file.payload]
                              ELSE [w EXCEPT !.stream = "failed", !.failed = TRUE,
                                             !.threw = TRUE]>>
    /\ UNCHANGED <<ringVars, writeVars, readVars, histVars, cfg, env, ev, shared, cap, stats,
                   enc, watchPc, result, pktLog, pushOk>>

WavClose ==
    /\ Len(segments) = 1
    /\ LET w == segments[1]
       IN /\ w.backend = "wav"
          /\ w.closes < MaxCloses
          /\ segments' = <<[WavWriterClose(w) EXCEPT !.closes = @ + 1]>>
    /\ UNCHANGED <<ringVars, writeVars, readVars, histVars, cfg, env, ev, shared, cap, stats,
                   enc, watchPc, result, pktLog, pushOk>>

\* Mp3StreamWriter::Write, Mp3Converter.cpp 523-568: whole frames of pending_
\* are encoded and written; the stream is not tested after the write
Mp3Write ==
    /\ Len(segments) = 1
    /\ LET w == segments[1]
       IN /\ w.backend = "mp3"
          /\ w.closes = 0 /\ ~w.threw
          /\ \E byteCount \in 0..MaxWrite, encoderOk \in BOOLEAN, ok \in BOOLEAN :
                /\ w.total + byteCount <= MaxMp3Total
                /\ LET all == w.pending_ + byteCount
                       framesAvailable == all \div BytesPerFrame
                   IN segments' =
                         <<IF w.stream # "good"
                           THEN [w EXCEPT !.failed = TRUE, !.threw = TRUE]
                           ELSE IF byteCount = 0 THEN w
                           ELSE IF framesAvailable = 0
                           THEN [w EXCEPT !.pending_ = all, !.total = @ + byteCount]
                           ELSE IF ~encoderOk
                           THEN [w EXCEPT !.pending_ = all, !.failed = TRUE, !.threw = TRUE]
                           ELSE [w EXCEPT !.pending_ = all % BytesPerFrame,
                                          !.total = @ + byteCount,
                                          !.file.payload = IF ok THEN @ + framesAvailable ELSE @,
                                          !.stream = IF ok THEN @ ELSE "failed",
                                          !.failed = @ \/ ~ok]>>
    /\ UNCHANGED <<ringVars, writeVars, readVars, histVars, cfg, env, ev, shared, cap, stats,
                   enc, watchPc, result, pktLog, pushOk>>

\* Mp3StreamWriter::Flush, Mp3Converter.cpp 570-578
Mp3Flush ==
    /\ Len(segments) = 1
    /\ LET w == segments[1]
       IN /\ w.backend = "mp3"
          /\ w.closes = 0 /\ ~w.threw
          /\ \E ok \in BOOLEAN :
                segments' = <<IF w.stream # "good" THEN w
                              ELSE IF ok THEN [w EXCEPT !.file.synced = w.file.payload]
                              ELSE [w EXCEPT !.stream = "failed", !.failed = TRUE,
                                             !.threw = TRUE]>>
    /\ UNCHANGED <<ringVars, writeVars, readVars, histVars, cfg, env, ev, shared, cap, stats,
                   enc, watchPc, result, pktLog, pushOk>>

Mp3Close ==
    /\ Len(segments) = 1
    /\ LET w == segments[1]
       IN /\ w.backend = "mp3"
          /\ w.closes < MaxCloses
          /\ \E encoderOk \in BOOLEAN :
                segments' = <<[Mp3StreamWriterClose(w, encoderOk) EXCEPT !.closes = @ + 1]>>
    /\ UNCHANGED <<ringVars, writeVars, readVars, histVars, cfg, env, ev, shared, cap, stats,
                   enc, watchPc, result, pktLog, pushOk>>

WritersInit ==
    /\ \E backend \in {"wav", "mp3"} : segments = <<OpenWriter(backend)>>
    /\ capacity = 0 /\ buffer = <<>> /\ writePos = 0 /\ readPos = 0
    /\ wpc = "idle" /\ wData = <<>> /\ wBytes = 0 /\ wPos = 0 /\ wRet = 0
    /\ rpc = "idle" /\ rBytes = 0 /\ rPos = 0 /\ rDest = <<>> /\ rRet = 0
    /\ written = <<>>
    /\ readOut = <<>>
    /\ cfg = <<>> /\ env = <<>> /\ ev = <<>> /\ shared = <<>> /\ cap = <<>>
    /\ stats = <<>> /\ enc = <<>> /\ watchPc = "none"
    /\ result = <<>> /\ pktLog = <<>> /\ pushOk = TRUE

WritersNext ==
    \/ WavWrite
    \/ WavFlush
    \/ WavClose
    \/ Mp3Write
    \/ Mp3Flush
    \/ Mp3Close

SpecWriters == WritersInit /\ [][WritersNext]_vars

(***************************************************************************)
(* Mp3StreamWriter: the carry-over buffer pending_                         *)
(*                                                                         *)
(* One Mp3StreamWriter, driven call by call, with the bytes themselves.    *)
(* segments holds the one writer: bytesPerFrame_, pending_, finalized_ and *)
(* the state of stream_, and, as history, the bytes passed to Write so     *)
(* far (passed), the bytes handed to the encoder so far (encoded), the     *)
(* call made last, whether it threw, and whether any call on the encoder   *)
(* or the stream has failed.  The bytes passed are numbered 1, 2, 3, ...   *)
(* so that their order shows; a padding byte is 0.  Write is called on a   *)
(* writer that has not been closed and has not thrown, as the encode loop  *)
(* does; Close is called any number of times.                              *)
(***************************************************************************)
MaxPassed == 7         \* bytes passed to Write over the life of a writer

\* format_.nBlockAlign of the formats tried
FrameSizes == {2, 3}

\* Mp3StreamWriter::Write, Mp3Converter.cpp 523-568: data is appended to
\* pending_, its whole frames are converted and encoded, the rest is moved
\* to the front.  encoderOk: encode_buffer_interleaved did not fail; ok:
\* stream_.write left the stream good
Mp3StreamWrite(w, data, encoderOk, ok) ==
    LET called == [w EXCEPT !.last = "Write", !.threw = FALSE, !.passed = @ \o data]
        all == w.pending_ \o data
        framesAvailable == Len(all) \div w.bytesPerFrame_
        bytesToProcess == framesAvailable * w.bytesPerFrame_
    IN IF w.finalized_ THEN called
       ELSE IF w.stream # "good" THEN [called EXCEPT !.threw = TRUE]
       ELSE IF data = <<>> THEN called
       ELSE IF framesAvailable = 0 THEN [called EXCEPT !.pending_ = all]
       ELSE IF ~encoderOk
            THEN [called EXCEPT !.pending_ = all, !.threw = TRUE, !.failed = TRUE]
       ELSE [called EXCEPT !.encoded = @ \o SubSeq(all, 1, bytesToProcess),
                           !.pending_ = SubSeq(all, bytesToProcess + 1, Len(all)),
                           !.stream = IF ok THEN @ ELSE "failed",
                           !.failed = @ \/ ~ok]

\* Mp3StreamWriter::Close, Mp3Converter.cpp 580-644: a remaining partial
\* frame is padded with zero bytes and encoded, pending_ cleared, the
\* encoder flushed, the stream closed
Mp3StreamClose(w, encoderOk) ==
    LET called == [w EXCEPT !.last = "Close", !.threw = FALSE]
        remainder == Len(w.pending_) % w.bytesPerFrame_
        pad == IF remainder # 0 THEN w.bytesPerFrame_ - remainder ELSE 0
        padded == w.pending_ \o [i \in 1..pad |-> 0]
    IN IF w.finalized_ THEN called
       ELSE IF w.stream # "good" THEN [called EXCEPT !.finalized_ = TRUE]
       ELSE IF ~encoderOk
            THEN [called EXCEPT !.finalized_ = TRUE, !.pending_ = padded, !.threw = TRUE,
                                !.failed = TRUE]
       ELSE [called EXCEPT !.finalized_ = TRUE,
                           !.encoded = @ \o padded,
                           !.pending_ = <<>>,
                           !.stream = "closed"]

\* Write is called with the next byteCount bytes
CarryWrite ==
    /\ Len(segments) = 1
    /\ LET w == segments[1]
       IN \E byteCount \in 0..MaxWrite, encoderOk \in BOOLEAN, ok \in BOOLEAN :
             /\ w.closes = 0 /\ ~w.threw
             /\ Len(w.passed) + byteCount <= MaxPassed
             /\ segments' = <<Mp3StreamWrite(w, [i \in 1..byteCount |-> Len(w.passed) + i],
                                             encoderOk, ok)>>
    /\ UNCHANGED <<ringVars, writeVars, readVars, histVars, cfg, env, ev, shared, cap, stats,
                   enc, watchPc, result, pktLog, pushOk>>

\* Close is called, by the owner or by ~Mp3StreamWriter (line 519-521)
CarryClose ==
    /\ Len(segments) = 1
    /\ LET w == segments[1]
       IN /\ w.closes < MaxCloses
          /\ \E encoderOk \in BOOLEAN :
                segments' = <<[Mp3StreamClose(w, encoderOk) EXCEPT !.closes = @ + 1]>>
    /\ UNCHANGED <<ringVars, writeVars, readVars, histVars, cfg, env, ev, shared, cap, stats,
                   enc, watchPc, result, pktLog, pushOk>>

\* Mp3StreamWriter::Mp3StreamWriter, Mp3Converter.cpp 448-517
CarryInit ==
    /\ \E bytesPerFrame \in FrameSizes :
          segments = <<[bytesPerFrame_ |-> bytesPerFrame, pending_ |-> <<>>,
                        finalized_ |-> FALSE, stream |-> "good", passed |-> <<>>,
                        encoded |-> <<>>, last |-> "none", threw |-> FALSE, failed |-> FALSE,
                        closes |-> 0]>>
    /\ capacity = 0 /\ buffer = <<>> /\ writePos = 0 /\ readPos = 0
    /\ wpc = "idle" /\ wData = <<>> /\ wBytes = 0 /\ wPos = 0 /\ wRet = 0
    /\ rpc = "idle" /\ rBytes = 0 /\ rPos = 0 /\ rDest = <<>> /\ rRet = 0
    /\ written = <<>>
    /\ readOut = <<>>
    /\ cfg = <<>> /\ env = <<>> /\ ev = <<>> /\ shared = <<>> /\ cap = <<>>
    /\ stats = <<>> /\ enc = <<>> /\ watchPc = "none"
    /\ result = <<>> /\ pktLog = <<>> /\ pushOk = TRUE

CarryNext ==
    \/ CarryWrite
    \/ CarryClose

SpecCarry == CarryInit /\ [][CarryNext]_vars

(***************************************************************************)
(* Record, lines 217-235 and 267: the size of the ring and of the chunk    *)
(*                                                                         *)
(* The statements that size the ring, one by one, for a mix format and a   *)
(* configured ring size drawn from sets of values; the numbers are the     *)
(* program's own.  env holds the locals of Record, capacity the ring's     *)
(* capacity_ once the ring is constructed.                                 *)
(***************************************************************************)
\* mixFormat->nSamplesPerSec
SampleRates == {0, 1, 7, 999, 8000, 44100, 48000, 192000}

\* mixFormat->nBlockAlign: one to three channels of 16 or 32 bits
BlockAligns == {2, 4, 6, 8, 12}

\* config.ringBufferSize in milliseconds
RingBufferSizes == {0 - 1, 0, 1, 199, 200, 201, 1000, 2000, 9999, 10000, 10001, 60000}

\* the 512 frames and the 16384 bytes of line 267
kChunkFrames == 512
kChunkFloor == 16384

\* std::numeric_limits<size_t>::max(), line 232; no value here reaches it
kSizeMax == 2147483647

\* line 231 without its floor of two frames
desiredCapacityNoFloor(ringFrames, bytesPerFrame) == ringFrames * bytesPerFrame

\* line 231
desiredCapacity(ringFrames, bytesPerFrame) ==
    Max(ringFrames * bytesPerFrame, bytesPerFrame * 2)

\* line 229
SizeRingMs ==
    /\ env.pc = "ringMs"
    /\ env' = [env EXCEPT !.pc = "ringFrames",
                          !.ringMs = ClampTo(env.ringBufferSize, RingMsMin, RingMsMax)]
    /\ UNCHANGED <<ringVars, writeVars, readVars, histVars, cfg, ev, shared, cap, stats, enc,
                   watchPc, segments, result, pktLog, pushOk>>

\* line 230
SizeRingFrames ==
    /\ env.pc = "ringFrames"
    /\ env' = [env EXCEPT !.pc = "desiredCapacity",
                          !.ringFrames = Max((env.sampleRate * env.ringMs) \div 1000, 1)]
    /\ UNCHANGED <<ringVars, writeVars, readVars, histVars, cfg, ev, shared, cap, stats, enc,
                   watchPc, segments, result, pktLog, pushOk>>

\* line 231
SizeDesiredCapacity ==
    /\ env.pc = "desiredCapacity"
    /\ env' = [env EXCEPT !.pc = "ringCapacityBytes",
                          !.desiredCapacity = desiredCapacity(env.ringFrames, env.bytesPerFrame)]
    /\ UNCHANGED <<ringVars, writeVars, readVars, histVars, cfg, ev, shared, cap, stats, enc,
                   watchPc, segments, result, pktLog, pushOk>>

\* line 232
SizeRingCapacityBytes ==
    /\ env.pc = "ringCapacityBytes"
    /\ env' = [env EXCEPT !.pc = "ring",
                          !.ringCapacityBytes = Min(env.desiredCapacity, kSizeMax)]
    /\ UNCHANGED <<ringVars, writeVars, readVars, histVars, cfg, ev, shared, cap, stats, enc,
                   watchPc, segments, result, pktLog, pushOk>>

\* line 235: SpscByteRingBuffer ring(ringCapacityBytes)
SizeRing ==
    /\ env.pc = "ring"
    /\ capacity' = CtorCapacity(env.ringCapacityBytes)
    /\ env' = [env EXCEPT !.pc = "chunkBytes"]
    /\ UNCHANGED <<buffer, writePos, readPos, writeVars, readVars, histVars, cfg, ev, shared,
                   cap, stats, enc, watchPc, segments, result, pktLog, pushOk>>

\* lines 267-268, in the encode thread
SizeChunkBytes ==
    /\ env.pc = "chunkBytes"
    /\ env' = [env EXCEPT !.pc = "done",
                          !.chunkBytes = Min(Capacity,
                                             Max(env.bytesPerFrame * kChunkFrames, kChunkFloor))]
    /\ UNCHANGED <<ringVars, writeVars, readVars, histVars, cfg, ev, shared, cap, stats, enc,
                   watchPc, segments, result, pktLog, pushOk>>

\* lines 217-218: bytesPerFrame and sampleRate of the mix format
SizeInit ==
    /\ \E sampleRate \in SampleRates, bytesPerFrame \in BlockAligns,
          ringBufferSize \in RingBufferSizes :
          env = [pc |-> "ringMs", sampleRate |-> sampleRate, bytesPerFrame |-> bytesPerFrame,
                 ringBufferSize |-> ringBufferSize, ringMs |-> 0, ringFrames |-> 0,
                 desiredCapacity |-> 0, ringCapacityBytes |-> 0, chunkBytes |-> 0]
    /\ capacity = 0 /\ buffer = <<>> /\ writePos = 0 /\ readPos = 0
    /\ wpc = "idle" /\ wData = <<>> /\ wBytes = 0 /\ wPos = 0 /\ wRet = 0
    /\ rpc = "idle" /\ rBytes = 0 /\ rPos = 0 /\ rDest = <<>> /\ rRet = 0
    /\ written = <<>>
    /\ readOut = <<>>
    /\ cfg = <<>> /\ ev = <<>> /\ shared = <<>> /\ cap = <<>> /\ stats = <<>>
    /\ enc = <<>> /\ watchPc = "none" /\ segments = <<>>
    /\ result = <<>> /\ pktLog = <<>> /\ pushOk = TRUE

SizeNext ==
    \/ SizeRingMs
    \/ SizeRingFrames
    \/ SizeDesiredCapacity
    \/ SizeRingCapacityBytes
    \/ SizeRing
    \/ SizeChunkBytes

SpecSize == SizeInit /\ [][SizeNext]_vars

(***************************************************************************)
(* GuiApp.cpp: the window's recorder state and its worker thread           *)
(*                                                                         *)
(* env holds AppState's state, stopRequested, pauseRequested and worker    *)
(* (joinable), the position of the thread running RunRecorder, the posted  *)
(* messages of the window that are not handled yet, in posting order, and  *)
(* the position of the window's thread inside a handler that blocks (ui).  *)
(* env.threads counts the threads running RunRecorder, env.sessions the    *)
(* Record calls in progress, env.files the output files opened so far;     *)
(* env.asked, env.filesAtStop and env.starts are history: StopRecording    *)
(* has stored stopRequested for the worker at hand, the files opened by    *)
(* then, and the workers started.  A command of the user is handled at any *)
(* point between two handlers.                                             *)
(***************************************************************************)
MaxStarts == 2         \* recordings the user starts

RecorderStates == {"Idle", "Starting", "Recording", "Recovering", "Stopping"}

\* GuiApp.cpp 751-753, 1418: PostMessageW to the window; it fails once the
\* window is destroyed
Post(e, msg) == IF e.destroyed THEN e ELSE [e EXCEPT !.queue = Append(@, msg)]

\* GuiApp.cpp 1436-1476: StartRecording returns unless the state is Idle;
\* it clears the flags, sets Starting and move-assigns a new thread to
\* state->worker
StartRecording ==
    /\ env.ui = "idle" /\ ~env.destroyed
    /\ env.state = "Idle"
    /\ env.starts < MaxStarts
    /\ env' = [env EXCEPT !.stopRequested = FALSE, !.pauseRequested = FALSE,
                          !.asked = FALSE, !.state = "Starting",
                          !.joinable = TRUE, !.worker = "top", !.attempts = 0,
                          !.threads = @ + 1, !.starts = @ + 1]
    /\ UNCHANGED <<ringVars, writeVars, readVars, histVars, cfg, ev, shared, cap, stats, enc,
                   watchPc, segments, result, pktLog, pushOk>>

\* GuiApp.cpp 1478-1488: StopRecording returns if the state is Idle; it
\* stores stopRequested = true and sets Stopping
StopRecording ==
    /\ env.ui = "idle" /\ ~env.destroyed
    /\ env.state # "Idle"
    /\ env' = [env EXCEPT !.stopRequested = TRUE, !.state = "Stopping",
                          !.asked = TRUE,
                          !.filesAtStop = IF env.asked THEN @ ELSE env.files]
    /\ UNCHANGED <<ringVars, writeVars, readVars, histVars, cfg, ev, shared, cap, stats, enc,
                   watchPc, segments, result, pktLog, pushOk>>

\* GuiApp.cpp 1490-1512: TogglePause acts in Recording and Recovering only
TogglePause ==
    /\ env.ui = "idle" /\ ~env.destroyed
    /\ env.state \in {"Recording", "Recovering"}
    /\ env' = [env EXCEPT !.pauseRequested = ~@]
    /\ UNCHANGED <<ringVars, writeVars, readVars, histVars, cfg, ev, shared, cap, stats, enc,
                   watchPc, segments, result, pktLog, pushOk>>

\* GuiApp.cpp 2021-2027: WM_APP_STATE_UPDATE stores the posted state
WndProcStateUpdate ==
    /\ env.ui = "idle"
    /\ env.queue # <<>> /\ Head(env.queue) \in RecorderStates
    /\ env' = [env EXCEPT !.state = Head(env.queue), !.queue = Tail(@)]
    /\ UNCHANGED <<ringVars, writeVars, readVars, histVars, cfg, ev, shared, cap, stats, enc,
                   watchPc, segments, result, pktLog, pushOk>>

\* GuiApp.cpp 2238-2242: WM_APP_RECORDER_DONE calls CleanupWorker
WndProcRecorderDone ==
    /\ env.ui = "idle"
    /\ env.queue # <<>> /\ Head(env.queue) = "WM_APP_RECORDER_DONE"
    /\ env' = [env EXCEPT !.ui = "CleanupWorker", !.queue = Tail(@)]
    /\ UNCHANGED <<ringVars, writeVars, readVars, histVars, cfg, ev, shared, cap, stats, enc,
                   watchPc, segments, result, pktLog, pushOk>>

\* GuiApp.cpp 1514-1527: CleanupWorker joins the worker if it is joinable,
\* which waits for the thread's end, clears the flags and sets Idle
CleanupWorkerNoJoin ==
    /\ env.ui = "CleanupWorker"
    /\ env' = [env EXCEPT !.stopRequested = FALSE,
                          !.pauseRequested = FALSE, !.asked = FALSE,
                          !.state = "Idle", !.ui = "idle"]
    /\ UNCHANGED <<ringVars, writeVars, readVars, histVars, cfg, ev, shared, cap, stats, enc,
                   watchPc, segments, result, pktLog, pushOk>>

CleanupWorker ==
    /\ env.ui = "CleanupWorker"
    /\ env.joinable => env.worker = "ended"
    /\ env' = [env EXCEPT !.joinable = FALSE, !.stopRequested = FALSE,
                          !.pauseRequested = FALSE, !.asked = FALSE,
                          !.state = "Idle", !.ui = "idle"]
    /\ UNCHANGED <<ringVars, writeVars, readVars, histVars, cfg, ev, shared, cap, stats, enc,
                   watchPc, segments, result, pktLog, pushOk>>

\* GuiApp.cpp 2243-2245: WM_DESTROY stores stopRequested = true
WndProcDestroy ==
    /\ env.ui = "idle" /\ ~env.destroyed
    /\ env' = [env EXCEPT !.stopRequested = TRUE, !.destroyed = TRUE,
                          !.queue = <<>>, !.ui = "WM_DESTROY"]
    /\ UNCHANGED <<ringVars, writeVars, readVars, histVars, cfg, ev, shared, cap, stats, enc,
                   watchPc, segments, result, pktLog, pushOk>>

\* GuiApp.cpp 2255-2257: and joins the worker if it is joinable
WndProcDestroyJoin ==
    /\ env.ui = "WM_DESTROY"
    /\ env.joinable => env.worker = "ended"
    /\ env' = [env EXCEPT !.joinable = FALSE, !.ui = "quit"]
    /\ UNCHANGED <<ringVars, writeVars, readVars, histVars, cfg, ev, shared, cap, stats, enc,
                   watchPc, segments, result, pktLog, pushOk>>

\* GuiApp.cpp 1349-1355: the top of RunRecorder's loop posts Recording and
\* acquires the device, or throws
WorkerTop ==
    /\ env.worker = "top"
    /\ \E device \in BOOLEAN :
          env' = [Post(env, "Recording") EXCEPT
                     !.worker = IF device THEN "record" ELSE "done"]
    /\ UNCHANGED <<ringVars, writeVars, readVars, histVars, cfg, ev, shared, cap, stats, enc,
                   watchPc, segments, result, pktLog, pushOk>>

\* GuiApp.cpp 1359-1385: the output path is chosen and Record is called; it
\* throws before its writer thread exists or opens the output file
\* (LoopbackRecorder.cpp 332)
WorkerRecord ==
    /\ env.worker = "record"
    /\ \E opens \in BOOLEAN :
          env' = IF opens
                 THEN [env EXCEPT !.worker = "recording", !.sessions = @ + 1,
                                  !.files = @ + 1]
                 ELSE [env EXCEPT !.worker = "done"]
    /\ UNCHANGED <<ringVars, writeVars, readVars, histVars, cfg, ev, shared, cap, stats, enc,
                   watchPc, segments, result, pktLog, pushOk>>

\* GuiApp.cpp 1385: Record returns its statistics, after a stop request or
\* the loss of the device, or throws
WorkerRecordReturns ==
    /\ env.worker = "recording"
    /\ \E how \in {"stop", "deviceInvalidated", "throws"} :
          /\ how = "stop" => env.stopRequested
          /\ env' = [env EXCEPT !.sessions = @ - 1,
                                !.deviceInvalidated = (how = "deviceInvalidated"),
                                !.worker = IF how = "throws" THEN "done" ELSE "test"]
    /\ UNCHANGED <<ringVars, writeVars, readVars, histVars, cfg, ev, shared, cap, stats, enc,
                   watchPc, segments, result, pktLog, pushOk>>

\* GuiApp.cpp 1390-1413: the reconnect test; Recovering is posted before
\* the delay
WorkerTest ==
    /\ env.worker = "test"
    /\ env' = IF env.deviceInvalidated /\ ~env.stopRequested
              THEN IF env.attempts >= kMaxReconnectAttempts
                   THEN [env EXCEPT !.worker = "done"]
                   ELSE [Post(env, "Recovering") EXCEPT
                            !.attempts = @ + 1, !.worker = "sleep"]
              ELSE [env EXCEPT !.worker = "done"]
    /\ UNCHANGED <<ringVars, writeVars, readVars, histVars, cfg, ev, shared, cap, stats, enc,
                   watchPc, segments, result, pktLog, pushOk>>

\* GuiApp.cpp 1408-1409: the delay is over, continue
WorkerSleep ==
    /\ env.worker = "sleep"
    /\ env' = [env EXCEPT !.worker = "top"]
    /\ UNCHANGED <<ringVars, writeVars, readVars, histVars, cfg, ev, shared, cap, stats, enc,
                   watchPc, segments, result, pktLog, pushOk>>

\* GuiApp.cpp 1418: WM_APP_RECORDER_DONE is posted
WorkerDone ==
    /\ env.worker = "done"
    /\ env' = [Post(env, "WM_APP_RECORDER_DONE") EXCEPT !.worker = "return"]
    /\ UNCHANGED <<ringVars, writeVars, readVars, histVars, cfg, ev, shared, cap, stats, enc,
                   watchPc, segments, result, pktLog, pushOk>>

\* GuiApp.cpp 1419, 1473-1475: RunRecorder returns and the thread ends
WorkerReturn ==
    /\ env.worker = "return"
    /\ env' = [env EXCEPT !.worker = "ended", !.threads = @ - 1]
    /\ UNCHANGED <<ringVars, writeVars, readVars, histVars, cfg, ev, shared, cap, stats, enc,
                   watchPc, segments, result, pktLog, pushOk>>

GuiInit ==
    /\ env = [state |-> "Idle", stopRequested |-> FALSE, pauseRequested |-> FALSE,
              joinable |-> FALSE, worker |-> "none", attempts |-> 0,
              deviceInvalidated |-> FALSE, queue |-> <<>>, ui |-> "idle",
              destroyed |-> FALSE, threads |-> 0, sessions |-> 0, files |-> 0,
              asked |-> FALSE, filesAtStop |-> 0, starts |-> 0]
    /\ stats = <<>>
    /\ capacity = 0 /\ buffer = <<>> /\ writePos = 0 /\ readPos = 0
    /\ wpc = "idle" /\ wData = <<>> /\ wBytes = 0 /\ wPos = 0 /\ wRet = 0
    /\ rpc = "idle" /\ rBytes = 0 /\ rPos = 0 /\ rDest = <<>> /\ rRet = 0
    /\ written = <<>>
    /\ readOut = <<>>
    /\ cfg = <<>> /\ ev = <<>> /\ shared = <<>> /\ cap = <<>>
    /\ enc = <<>> /\ watchPc = "none" /\ segments = <<>>
    /\ result = <<>> /\ pktLog = <<>> /\ pushOk = TRUE

GuiNext ==
    \/ StartRecording
    \/ StopRecording
    \/ TogglePause
    \/ WndProcStateUpdate
    \/ WndProcRecorderDone
    \/ CleanupWorker
    \/ WndProcDestroy
    \/ WndProcDestroyJoin
    \/ WorkerTop
    \/ WorkerRecord
    \/ WorkerRecordReturns
    \/ WorkerTest
    \/ WorkerSleep
    \/ WorkerDone
    \/ WorkerReturn

SpecGui == GuiInit /\ [][GuiNext]_vars

\* C1: the bytes returned by Read, concatenated, are always a prefix of the
\* bytes accepted by Write, concatenated: the cursors count exactly the bytes
\* returned and accepted, and the unread slots hold the rest of the accepted
\* bytes in order, so no byte is lost, duplicated or reordered, also across
\* the wrap of the storage array.
C1_ReadIsPrefixOfWritten ==
    /\ IsPrefix(readOut, written)
    /\ Len(readOut) = readPos
    /\ Len(written) = writePos
    /\ \A i \in 1..(writePos - readPos) :
           buffer[(readPos + i - 1) % capacity] = written[readPos + i]

\* a Read that wrapped around the end of the array has returned, after the
\* array was filled more than once
C1_Witness ==
    /\ rpc = "idle"
    /\ capacity > 1
    /\ Len(readOut) > capacity
    /\ rRet > 1
    /\ Offset(readPos) > 0
    /\ Offset(readPos) < rRet
    /\ \E i \in 1..Len(readOut) : readOut[i] = 1

\* C2: the cursors are never further apart than the capacity, writePos is
\* changed only by the producer's publishing step of Write and readPos only by
\* the consumer's publishing step of Read (and both only grow), and with no
\* call in flight AvailableToRead() + AvailableToWrite() is the capacity.
C2_CursorInvariant ==
    /\ [](/\ 0 <= writePos - readPos
          /\ writePos - readPos <= Capacity
          /\ (wpc = "idle" /\ rpc = "idle") => AvailableToRead + AvailableToWrite = Capacity)
    /\ [][/\ writePos' # writePos => (wpc = "publish" /\ wpc' = "idle" /\ writePos' > writePos)
          /\ readPos' # readPos => (rpc = "publish" /\ rpc' = "idle" /\ readPos' > readPos)]_vars

\* the ring is full, with no call in flight, after the cursors have passed the
\* end of the array
C2_Witness ==
    /\ wpc = "idle"
    /\ rpc = "idle"
    /\ capacity > 1
    /\ readPos > 0
    /\ writePos > capacity
    /\ writePos - readPos = capacity

\* C3: with the copies and the cursor stores as separate steps, the slots the
\* producer is copying into are never slots that hold unread bytes or that the
\* consumer is copying out of, and the consumer only copies out of slots whose
\* write has been published.
C3_NoSlotShared ==
    /\ ProducerSlots \cap (UnreadSlots \cup ConsumerSlots) = {}
    /\ ConsumerSlots \subseteq UnreadSlots
    /\ Cardinality(ProducerSlots) + Cardinality(UnreadSlots) <= capacity

\* the producer is in the second copy of a wrapped Write while the consumer is
\* in the middle of a Read
C3_Witness ==
    /\ wpc = "copy2"
    /\ rpc \in {"copy1", "copy2"}
    /\ ConsumerSlots # {}
    /\ Cardinality(ProducerSlots) > 1

\* C4: Write returns min(n, free space) and moves writePos by that amount, and
\* returns 0 leaving the ring as it was when n = 0 or the ring is full; Read
\* returns min(m, readable bytes) and moves readPos by that amount, and
\* returns 0 leaving the ring as it was when m = 0 or the ring is empty; a call
\* in flight can always take its next step (it never waits).
C4_WriteReadReturn ==
    /\ [][/\ \A data \in DataSeqs : WriteCall(data) =>
                 LET free == capacity - (writePos - readPos)
                 IN IF Len(data) = 0 \/ free = 0
                    THEN wRet' = 0 /\ wpc' = "idle" /\ UNCHANGED ringVars
                    ELSE /\ wpc' = "copy1"
                         /\ wBytes' = Min(Len(data), free)
                         /\ UNCHANGED <<writePos, readPos>>
          /\ (wpc # "idle" /\ wpc' # "idle") => (wBytes' = wBytes /\ writePos' = writePos)
          /\ (wpc # "idle" /\ wpc' = "idle") =>
                 (wRet' = wBytes /\ writePos' = writePos + wBytes /\ readPos' = readPos)
          /\ \A maxBytes \in 0..MaxReq : ReadCall(maxBytes) =>
                 LET readable == writePos - readPos
                 IN IF maxBytes = 0 \/ readable = 0
                    THEN rRet' = 0 /\ rpc' = "idle" /\ UNCHANGED ringVars
                    ELSE /\ rpc' = "copy1"
                         /\ rBytes' = Min(maxBytes, readable)
                         /\ UNCHANGED <<writePos, readPos>>
          /\ (rpc # "idle" /\ rpc' # "idle") => (rBytes' = rBytes /\ readPos' = readPos)
          /\ (rpc # "idle" /\ rpc' = "idle") =>
                 (rRet' = rBytes /\ readPos' = readPos + rBytes /\ writePos' = writePos)]_vars
    /\ [](wpc # "idle" => ENABLED WriteStep)
    /\ [](rpc # "idle" => ENABLED ReadStep)

\* a Write asked for more than fits has just filled the ring up to its
\* capacity, after a Read returned fewer bytes than the capacity
C4_Witness ==
    /\ wpc = "idle"
    /\ rpc = "idle"
    /\ capacity > 1
    /\ wRet > 0
    /\ rRet > 0
    /\ rRet < capacity
    /\ writePos - readPos = capacity
    /\ writePos > capacity

(***************************************************************************)
(* Claims about one session of Record                                      *)
(***************************************************************************)

\* the bytes handed to the segment writers, in segment-index order
RECURSIVE HandedToWriters(_)
HandedToWriters(segs) ==
    IF segs = <<>> THEN <<>>
    ELSE HandedToWriters(SubSeq(segs, 1, Len(segs) - 1)) \o segs[Len(segs)].data

\* C5: when Record has returned its statistics and no writer call failed, the
\* bytes handed to the segment writers, taken in segment-index order, are
\* exactly the bytes the ring accepted, in the order it accepted them.
C5_SegmentsCarryAcceptedBytes ==
    (result.kind = "returned" /\ ~shared.writerFailed) =>
        HandedToWriters(segments) = written

\* Record has returned after a session in which the ring wrapped around and
\* the accepted bytes went to two segments
C5_Witness ==
    /\ result.kind = "returned"
    /\ ~shared.writerFailed
    /\ Len(segments) >= 2
    /\ segments[1].data # <<>>
    /\ segments[2].data # <<>>
    /\ Len(written) > capacity

\* the segments whose writer is open
OpenSegments == {i \in DOMAIN segments : segments[i].state = "open"}

\* C6: at every moment at most one segment writer is open, and it is the one
\* opened last; a writer is opened only when the one before it is flushed and
\* closed; no byte goes to a segment once a later one exists.
C6_OneOpenSegment ==
    /\ [](Cardinality(OpenSegments) <= 1 /\ OpenSegments \subseteq {Len(segments)})
    /\ [][/\ Len(segments') >= Len(segments)
          /\ \A i \in 1..(Len(segments) - 1) : segments'[i] = segments[i]
          /\ Len(segments') > Len(segments) =>
                /\ OpenSegments = {}
                /\ enc.bytesPendingFlush = 0
                /\ Len(segments') = Len(segments) + 1
                /\ segments'[Len(segments')] = NewWriter]_vars

\* after a rollover: the first segment closed with bytes in it, the second
\* open with bytes in it
C6_Witness ==
    /\ Len(segments) = 2
    /\ segments[1].state = "closed"
    /\ segments[1].data # <<>>
    /\ segments[2].state = "open"
    /\ segments[2].data # <<>>

\* C7: if every push of the session was accepted in full, without a
\* space-wait running out, then when Record returns its statistics
\* framesDropped is 0 and the bytes handed to the segment writers number
\* framesCaptured * bytesPerFrame.
C7_KeepingUpLosesNothing ==
    (result.kind = "returned" /\ pushOk) =>
        /\ result.stats.framesDropped = 0
        /\ Len(HandedToWriters(segments)) = result.stats.framesCaptured * BytesPerFrame

\* C8: with the encode loop stalled inside a writer call and the stop
\* requested, Record is not found waiting for the encode thread, and what it
\* returns has framesDropped > 0.
C8_StalledConsumerNotAwaited ==
    (enc.pc = "stalled" /\ env.stopRequested) =>
        /\ cap.pc # "join"
        /\ result.kind = "returned" => result.stats.framesDropped > 0

\* C9: once the caller's stop flag is up, at most one wait of the capture
\* loop runs its full time before the loop is left.
C9_StopLeavesLoopWithinOneWait ==
    cap.timeoutsSinceStop <= 1

\* the frames of the packets for which isPaused() answered true
RECURSIVE PausedFrames(_)
PausedFrames(log) ==
    IF log = <<>> THEN 0
    ELSE PausedFrames(SubSeq(log, 1, Len(log) - 1))
             + (IF log[Len(log)].paused THEN log[Len(log)].frames ELSE 0)

\* b is a byte of a packet that was not paused
FromUnpausedPacket(b) ==
    /\ b.pkt \in DOMAIN pktLog
    /\ ~pktLog[b.pkt].paused
    /\ b.idx \in 1..(pktLog[b.pkt].frames * BytesPerFrame)

\* the bytes of seq come in the order the engine delivered them, none twice
InCaptureOrder(seq) ==
    \A i \in 1..(Len(seq) - 1) :
        \/ seq[i].pkt < seq[i + 1].pkt
        \/ seq[i].pkt = seq[i + 1].pkt /\ seq[i].idx < seq[i + 1].idx

\* C10: the frames of the packets processed while isPaused() answered true,
\* and no others, make up framesWhilePaused; every byte pushed into the ring,
\* waiting to be pushed or handed to a segment writer is a byte of a packet
\* that was not paused, in capture order, so nothing stands in for a paused
\* packet.
C10_PausedPacketsSkipped ==
    /\ stats.framesWhilePaused = PausedFrames(pktLog)
    /\ \A i \in DOMAIN written : FromUnpausedPacket(written[i])
    /\ \A i \in DOMAIN cap.staging : FromUnpausedPacket(cap.staging[i])
    /\ \A i \in DOMAIN HandedToWriters(segments) :
          FromUnpausedPacket(HandedToWriters(segments)[i])
    /\ InCaptureOrder(written)
    /\ InCaptureOrder(HandedToWriters(segments))

\* Record has returned after a paused packet and a packet that was not
\* paused, the latter in a segment
C10_Witness ==
    /\ result.kind = "returned"
    /\ \E i \in DOMAIN pktLog : pktLog[i].paused
    /\ \E i \in DOMAIN pktLog : ~pktLog[i].paused
    /\ result.stats.framesWhilePaused > 0
    /\ HandedToWriters(segments) # <<>>

\* C11: a segment opened for a manual request is opened on an iteration of
\* the encode loop that has a chunk to process: when the writer of the next
\* segment is opened by the rollover of line 363, the ring holds bytes for the
\* Read that follows.
C11_ManualRollOnlyWithChunk ==
    [][(Len(segments') > Len(segments) /\ enc.rollRet = "read") =>
           AvailableToRead > 0]_vars

\* C12 as claimed: the manual rollovers never outnumber the stores of the
\* request flag, and once the encode loop has ended without a failure no
\* request stored while it was running is left without its rollover.
C12_EveryRequestRolls ==
    /\ enc.manualRolls <= env.requests
    /\ (enc.pc = "done" /\ ~shared.writerFailed) => ~env.owed

\* C12: the manual rollovers and the request still pending never outnumber
\* the stores of the request flag; a manual rollover takes a raised flag
\* down, so one store causes at most one rollover; an iteration the encode
\* loop begins (its loop test holds) with the flag raised performs the
\* rollover; a flag still raised when the loop test fails stays raised.
C12_RequestConsumedOnce ==
    /\ [](enc.manualRolls + (IF env.segmentRequested THEN 1 ELSE 0) <= env.requests)
    /\ [][/\ enc'.manualRolls \in {enc.manualRolls, enc.manualRolls + 1}
          /\ enc'.manualRolls = enc.manualRolls + 1 =>
                (env.segmentRequested /\ ~env'.segmentRequested /\ enc'.pc = "rollclose")
          /\ (enc.pc = "loop" /\ enc'.pc # "loop" /\ env.segmentRequested) =>
                IF writerLoopCondition
                THEN enc'.manualRolls = enc.manualRolls + 1
                ELSE env'.segmentRequested /\ enc'.pc = "finish"]_vars

\* a raised request was consumed by one rollover: the second segment is open
\* and the flag is down
C12_Witness ==
    /\ env.requests = 1
    /\ enc.manualRolls = 1
    /\ ~env.segmentRequested
    /\ Len(segments) = 2
    /\ segments[2].state = "open"

\* C13: with a duration target of T frames alone, when Record returns after
\* exactly M * T frames were accepted into the ring (M >= 1), the segments
\* opened number M - 1, M or M + 1.
C13_SegmentCountWithinOne ==
    LET T == segmentFrameTarget
        M == result.stats.framesCaptured \div T
    IN (/\ result.kind = "returned"
        /\ T # None
        /\ segmentByteTarget = None
        /\ ~manualSegmentsEnabled
        /\ M >= 1
        /\ result.stats.framesCaptured = M * T
        /\ Len(written) = M * T * BytesPerFrame) =>
           Len(segments) \in {M - 1, M, M + 1}

\* C14: deviceInvalidated is true exactly when an engine call
\* (GetNextPacketSize or GetBuffer) returned the device-invalidated code, all
\* the way to the statistics Record returns; any engine failure ends the
\* capture loop, another failure code leaves deviceInvalidated false, and
\* after a failure no engine call is made again.
C14_DeviceInvalidatedIffEngineSaidSo ==
    /\ [](/\ stats.deviceInvalidated <=> cap.engineError = AUDCLNT_E_DEVICE_INVALIDATED
          /\ result.kind = "returned" =>
                (result.stats.deviceInvalidated <=>
                    cap.engineError = AUDCLNT_E_DEVICE_INVALIDATED)
          /\ cap.engineError # "none" =>
                cap.pc \in {"shutdown", "joinwatcher", "finalize", "return", "guard", "join", "done"})
    /\ [][cap.engineError # "none" =>
             /\ cap'.engineError = cap.engineError
             /\ cap'.pc \notin {"top", "wait", "size", "packet", "push", "pushwait"}
             /\ pktLog' = pktLog]_vars

C14_Witness ==
    /\ result.kind = "returned"
    /\ cap.engineError = AUDCLNT_E_DEVICE_INVALIDATED
    /\ result.stats.deviceInvalidated
    /\ Len(written) > 0

C16_WriterErrorMakesRecordThrow ==
    (shared.writerFailed /\ result.kind # "running") => result.kind = "thrown"

\* C17: the segmentsWritten that Record returns is the number of segments
\* opened over the whole session, rollovers during the drain included, and
\* the writerWaitTimeouts it returns is the encode thread's final count
\* (stated for the sessions in which no writer call failed).
C17_ReturnedCountsAreFinal ==
    (result.kind = "returned" /\ ~shared.writerFailed) =>
        /\ result.stats.segmentsWritten = Len(segments)
        /\ result.stats.writerWaitTimeouts = shared.writerWaitTimeouts

\* C18: when Record is over, by whatever way the session ended, every segment
\* writer that was opened has been closed and its header fixed up to the
\* bytes written, also when a Write or Flush of that writer failed.
C18_EveryWriterFinalized ==
    result.kind # "running" =>
        \A i \in 1..Len(segments) :
            /\ segments[i].state = "closed"
            /\ segments[i].header = "finalized"

\* C19: for both writers a Close called on a writer that was closed before
\* changes neither the writer nor the file; the header is fixed up (WAV) and
\* the encoder flushed (MP3) at most once, and exactly once when no operation
\* of the writer failed; a Close on a writer that received no audio bytes,
\* none of whose operations failed, leaves a finalized file (WAV: data size 0
\* and the RIFF size of an empty file; MP3: the encoder's trailer written,
\* stream and encoder closed).
C19_CloseIsIdempotent ==
    /\ [](LET w == segments[1]
          IN /\ w.fixups <= 1
             /\ w.closes >= 1 => w.finalized_
             /\ (w.closes >= 1 /\ ~w.failed) =>
                   /\ w.fixups = 1
                   /\ w.stream = "closed"
                   /\ w.file.synced = w.file.payload
                   /\ w.backend = "mp3" =>
                         (~w.handle_ /\ w.pending_ = 0 /\ w.file.trailer = 1)
                   /\ (w.backend = "wav" /\ w.total = 0) =>
                         /\ w.file.dataSize = 0
                         /\ w.file.riffSize = 4 + 8 + FormatSize + 8)
    /\ [][(segments'[1].closes = segments[1].closes + 1 /\ segments[1].closes >= 1) =>
             segments'[1] = [segments[1] EXCEPT !.closes = @ + 1]]_vars

\* a WAV writer that received no byte has been closed twice
C19_Witness ==
    LET w == segments[1]
    IN /\ w.backend = "wav"
       /\ w.total = 0
       /\ ~w.failed
       /\ w.closes = 2
       /\ w.fixups = 1
       /\ w.file.dataSize = 0
       /\ w.file.riffSize = 4 + 8 + FormatSize + 8

\* C20: after Write calls that all succeeded and a Close, the data size in
\* the header is the total number of bytes written and the RIFF size is
\* 4 + 8 + fmt size + 8 + that total, whatever the total.
C20_HeaderSizesAreTheTotal ==
    LET w == segments[1]
    IN (w.backend = "wav" /\ w.closes >= 1 /\ ~w.failed) =>
          /\ w.file.dataSize = w.total
          /\ w.file.riffSize = 4 + 8 + FormatSize + 8 + w.total

\* the capture loop has been left (lines 631-665)
AfterLoop == {"shutdown", "joinwatcher", "finalize", "return", "guard", "join", "done"}

\* the packets GetBuffer delivered with the discontinuity flag
Glitches == {i \in DOMAIN pktLog : pktLog[i].glitch}

\* C21: a discontinuity flag, a watchdog timeout and a ring-full timeout are
\* each counted (glitchCount, watchdogTimeouts, ringBufferTimeouts); with
\* failOnGlitch false the step that counts one does not leave the capture
\* loop (the duration limit may, after a push), with failOnGlitch true the
\* first of them leaves it.
C21_GlitchesCountedAbortOnlyFailFast ==
    /\ [](/\ stats.glitchCount = Cardinality(Glitches)
          /\ cfg.failOnGlitch =>
                LET n == stats.glitchCount + stats.watchdogTimeouts + stats.ringBufferTimeouts
                IN n <= 1 /\ (n = 1 => cap.pc \in AfterLoop))
    /\ [][LET counted == \/ stats'.glitchCount > stats.glitchCount
                         \/ stats'.watchdogTimeouts > stats.watchdogTimeouts
                         \/ stats'.ringBufferTimeouts > stats.ringBufferTimeouts
          IN /\ (cap.pc = "wait" /\ cap'.pc \notin {"size", "wait"} /\ ~ev.userStop) =>
                   stats'.watchdogTimeouts = Bump(stats.watchdogTimeouts)
             /\ (cap.pc = "pushwait" /\ cap'.pc \notin {"push", "pushwait"}) =>
                   stats'.ringBufferTimeouts = stats.ringBufferTimeouts + 1
             /\ (counted /\ cfg.failOnGlitch) => cap'.pc = "shutdown"
             /\ (counted /\ ~cfg.failOnGlitch) =>
                   \/ cap'.pc \notin AfterLoop
                   \/ (frameLimit # None /\ cap'.framesRecorded >= frameLimit)]_vars

\* without failOnGlitch all three have been counted and the capture loop runs
C21_Witness ==
    /\ ~cfg.failOnGlitch
    /\ stats.glitchCount >= 1
    /\ stats.watchdogTimeouts >= 1
    /\ stats.ringBufferTimeouts >= 1
    /\ cap.pc = "top"

\* the frames of the packets for which isPaused() did not answer true
RECURSIVE UnpausedFrames(_)
UnpausedFrames(log) ==
    IF log = <<>> THEN 0
    ELSE UnpausedFrames(SubSeq(log, 1, Len(log) - 1))
             + (IF log[Len(log)].paused THEN 0 ELSE log[Len(log)].frames)

\* C22: when Record has returned from a session that was not aborted (no
\* failOnGlitch, no fatal flag), every frame of every packet that was not
\* paused was either accepted into the ring or added to framesDropped:
\* framesCaptured + framesDropped is the total of the frames of those packets.
C22_NoFrameLostUncounted ==
    (result.kind = "returned" /\ ~cfg.failOnGlitch /\ ~shared.fatalError) =>
        result.stats.framesCaptured + result.stats.framesDropped = UnpausedFrames(pktLog)

\* 16-bit integer PCM and 32-bit IEEE float, plain or extensible
SupportedFormats ==
    { [wFormatTag |-> "WAVE_FORMAT_PCM", wBitsPerSample |-> 16, SubFormat |-> None],
      [wFormatTag |-> "WAVE_FORMAT_IEEE_FLOAT", wBitsPerSample |-> 32, SubFormat |-> None],
      [wFormatTag |-> "WAVE_FORMAT_EXTENSIBLE", wBitsPerSample |-> 16,
       SubFormat |-> "KSDATAFORMAT_SUBTYPE_PCM"],
      [wFormatTag |-> "WAVE_FORMAT_EXTENSIBLE", wBitsPerSample |-> 32,
       SubFormat |-> "KSDATAFORMAT_SUBTYPE_IEEE_FLOAT"] }

\* C23: when the render device is null or the mix format is not 16-bit
\* integer PCM or 32-bit IEEE float (plain or extensible), Record gets no
\* further than its format check: the stream is never started, no thread is
\* created, no file is opened, no packet is pulled, and when Record is over
\* it has thrown.
C23_BadDeviceOrFormatThrowsEarly ==
    (~env.device \/ env.format \notin SupportedFormats) =>
        /\ cap.pc \in {"device", "activate", "validate", "done"}
        /\ cap.pc = "done" => (result.kind = "thrown" /\ cap.thrownAt \in {"device", "activate", "validate"})
        /\ ~env.streaming
        /\ enc.pc = "unborn"
        /\ watchPc = "none"
        /\ segments = <<>>
        /\ pktLog = <<>>

\* a 24-bit PCM mix format was refused by ValidateFormat
C23_Witness ==
    /\ env.device
    /\ env.format = [wFormatTag |-> "WAVE_FORMAT_PCM", wBitsPerSample |-> 24, SubFormat |-> None]
    /\ cap.thrownAt = "validate"
    /\ result.kind = "thrown"

\* C24: when the file of the first segment cannot be opened (the writer
\* failed and no segment exists), the capture stream has not been started and
\* no packet has been pulled from the engine, and Record, once over, has
\* thrown.
C24_FailedFirstOpenStartsNothing ==
    (shared.writerFailed /\ segments = <<>>) =>
        /\ ~env.streaming
        /\ pktLog = <<>>
        /\ cap.pc = "done" => result.kind = "thrown"

\* C25: a Record call after the first one of a run is made only when the
\* session before reported deviceInvalidated and the user has not asked to
\* stop, and a run calls Record at most kMaxReconnectAttempts + 1 times.
C25_ReopenOnlyAfterDeviceLossBounded ==
    /\ [](env.calls <= kMaxReconnectAttempts + 1)
    /\ [][(env'.calls > env.calls /\ env.calls >= 1) =>
              (stats.deviceInvalidated /\ ~env.asked)]_vars

\* the frames of the last packet that was handed to pushToRing
RECURSIVE LastPushedFrames(_)
LastPushedFrames(log) ==
    IF log = <<>> THEN 0
    ELSE IF ~log[Len(log)].paused THEN log[Len(log)].frames
    ELSE LastPushedFrames(SubSeq(log, 1, Len(log) - 1))

\* C26: with a duration limit of L = frameLimit frames, the capture loop
\* runs only while fewer than L frames are accepted: the count changes only
\* at the end of a push, and a push that brings it to L or above ends the
\* loop; the returned framesCaptured is below L plus the frames of the last
\* pushed packet; and the count holds accepted frames only, so it never
\* exceeds the bytes the ring took nor the frames of the non-paused packets
\* less the dropped ones.
C26_DurationLimitStopsTheLoop ==
    /\ [](frameLimit # None =>
             /\ cap.pc \notin AfterLoop => cap.framesRecorded < frameLimit
             /\ result.kind = "returned" =>
                   result.stats.framesCaptured < frameLimit + LastPushedFrames(pktLog)
             /\ cap.framesRecorded * BytesPerFrame <= Len(written)
             /\ cap.framesRecorded + stats.framesDropped <= UnpausedFrames(pktLog))
    /\ [][frameLimit # None =>
             /\ cap'.framesRecorded # cap.framesRecorded =>
                   cap.pc \in {"push", "pushwait"} /\ cap'.pc \notin {"push", "pushwait"}
             /\ (cap'.framesRecorded # cap.framesRecorded /\ cap'.framesRecorded >= frameLimit) =>
                   cap'.pc = "shutdown"]_vars

\* a session that ended by its limit after a paused packet and a dropped
\* frame, with more frames accepted than the limit
C26_Witness ==
    /\ result.kind = "returned"
    /\ result.stats.framesCaptured > frameLimit
    /\ result.stats.framesWhilePaused > 0
    /\ result.stats.framesDropped > 0

\* the capture loop has a reason to end: a stop request, the duration
\* limit, a device error
EndAsked ==
    \/ env.stopRequested
    \/ (frameLimit # None /\ cap.framesRecorded >= frameLimit)
    \/ cap.engineError # "none"

\* C27: under fair scheduling and with writer calls that complete, a stop
\* request, the duration limit or a device error is followed by the return
\* of Record; and whenever Record is over, the encode thread and the stop
\* watcher have ended and the ring is empty.
C27_RecordReturnsAfterStop ==
    /\ EndAsked ~> (cap.pc = "done" /\ result.kind = "returned")
    /\ [](cap.pc = "done" =>
             /\ enc.pc = "done"
             /\ hasStopCallback => watchPc = "done"
             /\ writePos = readPos)

\* C28: once the fatal flag is set the capture loop hands no further packet
\* to the ring (a push begun after the flag gets no byte in) and begins no
\* further wait, neither for samples nor for ring space, so that it leaves
\* its loop after at most the one wait it was in.
C28_FatalFlagEndsCapture ==
    [][shared.fatalError =>
          /\ (cap.pc = "push" /\ cap.acceptedBytes = 0) => written' = written
          /\ cap'.pc \in {"wait", "pushwait"} => cap'.pc = cap.pc]_vars

\* C29: whatever the thread that called Record reads of the writer thread's
\* plain variables it reads after the write is complete: when Record reads
\* writerErrorMessage for its throw, the assignment of the catch block is
\* over, and the message the throw carries is the one that was assigned.
C29_MessageReadAfterItsWrite ==
    /\ [](cap.message \in {"none", "what"})
    /\ [][(cap.pc = "return" /\ cap'.pc = "guard" /\ shared.writerFailed) =>
              shared.writerErrorMessage = "what"]_vars

\* the encode loop is between two chunks
BetweenChunks == enc.pc \in {"loop", "read", "datawait"}

\* the rollover of a step, if it begins one: "threshold" from the test
\* after a chunk, "manual" from the top of the loop
RollBegun ==
    IF enc.pc # "rollclose" /\ enc'.pc = "rollclose"
    THEN IF enc'.rollRet = "loop" THEN "threshold" ELSE "manual"
    ELSE "none"

\* the bytes written to the current segment
SegmentPayload(segs) == Len(segs[Len(segs)].data)

\* C30: a rollover by threshold begins only at the end of a written chunk
\* and with framesInSegment >= segmentFrameTarget or bytesInSegment >=
\* segmentByteTarget, and the segment it closes holds less than one chunk
\* more than its threshold (in frames of audio, in bytes); between chunks
\* the counters are below their thresholds, so the test is made after every
\* chunk; a rollover that opened its segment leaves the frame, byte and
\* pending-flush counters at zero and goes back to the loop, so a chunk is
\* followed by at most one rollover.
C30_ThresholdRollover ==
    /\ [](/\ (segmentFrameTarget # None /\ BetweenChunks) =>
                enc.framesInSegment < segmentFrameTarget
          /\ (segmentByteTarget # None /\ BetweenChunks) =>
                enc.bytesInSegment < segmentByteTarget)
    /\ [][/\ RollBegun = "threshold" =>
                /\ enc.pc \in {"write", "flush"}
                /\ \/ (segmentFrameTarget # None /\ enc'.framesInSegment >= segmentFrameTarget)
                   \/ (segmentByteTarget # None /\ enc'.bytesInSegment >= segmentByteTarget)
                /\ segmentFrameTarget # None =>
                      SegmentPayload(segments') <
                          segmentFrameTarget * BytesPerFrame + chunkBytes
                /\ segmentByteTarget # None =>
                      SegmentPayload(segments') < segmentByteTarget + chunkBytes
          /\ (enc.pc = "rollopen" /\ enc'.pc \notin {"rollopen", "done"}) =>
                /\ enc'.framesInSegment = 0
                /\ enc'.bytesInSegment = 0
                /\ enc'.bytesPendingFlush = 0
                /\ enc'.pc = enc.rollRet
                /\ enc'.pc \in {"loop", "read"}
                /\ Len(segments') = Len(segments) + 1]_vars

\* the segment indices the naming is compared on: the first ones and those
\* where the number of digits changes
SegmentIndices == (0..MaxIndex) \cup {98, 99, 100, 998, 999, 1000}

\* C31: the writers of a session are opened for the indices 0, 1, 2, ... in
\* that order, segmentsOpened is at every moment the current segment index
\* + 1, a session that returned its statistics has opened at least one
\* segment, and BuildSegmentPath gives different indices different paths,
\* so no two segments of the session share a file.
C31_SegmentIndicesInOrder ==
    /\ enc.opened = [i \in 1..Len(enc.opened) |-> i - 1]
    /\ shared.segmentsOpened = enc.currentSegmentIndex + 1
    /\ result.kind = "returned" => Len(enc.opened) >= 1
    /\ \A i, j \in SegmentIndices :
          i # j => BuildSegmentPath(UserPath, i) # BuildSegmentPath(UserPath, j)
    /\ \A i, j \in 1..Len(enc.opened) :
          i # j => BuildSegmentPath(UserPath, enc.opened[i])
                      # BuildSegmentPath(UserPath, enc.opened[j])

\* C38: a session never opens, and so never truncates, a file that was there
\* when its output path was chosen with EnsureUniquePath, be it a file from
\* before the run or a segment of an earlier session of the run.
C38_NoExistingFileOverwritten == env.clobbered = {}

\* zero bytes that fill n bytes up to whole frames of size bytes
Padding(n, size) == [i \in 1..((size - (n % size)) % size) |-> 0]

\* C32: after every Write call of an Mp3StreamWriter that returned, pending_
\* holds fewer than bytesPerFrame bytes, and the bytes handed to the encoder
\* followed by pending_ are the bytes passed to Write so far, in order;
\* after Close pending_ is empty and the encoder has been handed the bytes
\* passed followed by the zero bytes that fill the last frame.
C32_CarryOverBelowOneFrame ==
    LET w == segments[1]
    IN /\ (w.last = "Write" /\ ~w.threw) =>
             /\ Len(w.pending_) < w.bytesPerFrame_
             /\ w.encoded \o w.pending_ = w.passed
       /\ w.closes >= 1 =>
             /\ w.pending_ = <<>>
             /\ w.encoded = w.passed \o Padding(Len(w.passed), w.bytesPerFrame_)

\* C33: the ring's capacity in bytes is
\* max(max(sampleRate * ringMs / 1000, 1) * bytesPerFrame, 2 * bytesPerFrame)
\* with ringMs the configured ring size clamped to [200, 10000] ms; it is a
\* whole multiple of bytesPerFrame and at least two frames, and the encode
\* loop's chunk size is not larger than it.
C33_RingCapacityWholeFrames ==
    LET ringMs == IF env.ringBufferSize < 200 THEN 200
                  ELSE IF env.ringBufferSize > 10000 THEN 10000 ELSE env.ringBufferSize
        frames == (env.sampleRate * ringMs) \div 1000
        atLeastOne == IF frames < 1 THEN 1 ELSE frames
        formula == IF atLeastOne * env.bytesPerFrame < 2 * env.bytesPerFrame
                   THEN 2 * env.bytesPerFrame ELSE atLeastOne * env.bytesPerFrame
    IN /\ env.pc \in {"chunkBytes", "done"} =>
             /\ Capacity = formula
             /\ Capacity % env.bytesPerFrame = 0
             /\ Capacity >= 2 * env.bytesPerFrame
       /\ env.pc = "done" => (env.chunkBytes >= 1 /\ env.chunkBytes <= Capacity)

\* a ring of the two-frame floor, smaller than the chunk buffer's usual size,
\* for a configured size below the range
C33_Witness ==
    /\ env.pc = "done"
    /\ env.ringBufferSize < RingMsMin
    /\ env.ringFrames = 1
    /\ Capacity = 2 * env.bytesPerFrame
    /\ env.chunkBytes = Capacity

\* the bytes of the segments before segment i
RECURSIVE PayloadBefore(_, _)
PayloadBefore(segs, i) ==
    IF i <= 1 THEN 0 ELSE PayloadBefore(segs, i - 1) + Len(segs[i - 1].data)

\* no writer call has failed and no pushToRing has returned false
NothingFailed == ~shared.writerFailed /\ (cfg.failOnGlitch => stats.ringBufferTimeouts = 0)

\* C34: frames are accepted or dropped whole.  In a session in which no
\* writer call failed and no push was aborted, whenever no pushToRing is
\* under way the bytes the ring has accepted are a whole number of frames,
\* and every segment that has been closed starts on a frame boundary of the
\* stream and holds a whole number of frames.
C34_FramesKeptWhole ==
    NothingFailed =>
       /\ cap.pc \notin {"push", "pushwait"} => Len(written) % BytesPerFrame = 0
       /\ \A i \in 1..Len(segments) :
             segments[i].state = "closed" =>
                /\ PayloadBefore(segments, i) % BytesPerFrame = 0
                /\ Len(segments[i].data) % BytesPerFrame = 0

\* C35: frames are dropped only when the ring is full: a step of pushToRing
\* that adds to framesDropped is taken with no free space in the ring.
C35_DropOnlyWhenRingFull ==
    [][stats'.framesDropped > stats.framesDropped => AvailableToWrite = 0]_vars

\* C37: when Record returns its statistics silentFrames <= framesCaptured:
\* every frame counted as silent is also counted as captured.
C37_SilentFramesAreCaptured ==
    result.kind = "returned" => result.stats.silentFrames <= result.stats.framesCaptured

\* C36: in wmain a stop request is never lost: once the command thread has
\* stored stopRequested = true the flag stays set, the reconnect loop
\* included, and a Record call begun after the request is begun with the
\* flag set, so that its session captures nothing.
C36_StopRequestNeverLost ==
    /\ []((env.caller = "wmain" /\ env.asked) => env.stopRequested)
    /\ [][(env.caller = "wmain" /\ env.asked /\ env'.calls > env.calls) =>
              env.stopRequested]_vars

\* C39: in the window, once StopRecording has set Stopping and stored
\* stopRequested, the state stays Stopping until it becomes Idle, no posted
\* state update of the worker moving it to Recording or Recovering, and no
\* output file is opened after the stop request.
C39_StoppingStaysUntilIdle ==
    /\ [][env.state = "Stopping" => env'.state \in {"Stopping", "Idle"}]_vars
    /\ [](env.asked => env.files = env.filesAtStop)

\* C40: a worker thread is created only in the state Idle, and while the
\* state is Idle the worker has been joined and no thread runs RunRecorder,
\* so at most one worker thread and at most one Record call exist at any
\* time.
C40_SingleWorker ==
    /\ [][env'.starts > env.starts => (env.state = "Idle" /\ ~env.joinable)]_vars
    /\ []((env.state = "Idle" /\ env.ui = "idle") =>
              (~env.joinable /\ env.threads = 0 /\ env.queue = <<>>))
    /\ [](env.threads <= 1 /\ env.sessions <= 1)

\* a second worker runs after the first one was joined
C40_Witness ==
    /\ env.starts = 2 /\ env.worker = "recording" /\ env.sessions = 1
    /\ env.threads = 1 /\ env.pauseRequested /\ env.state = "Stopping"
====
